---------------------------- MODULE Spec2Model ----------------------------
(***************************************************************************)
(* A model of mermaid-ascii (TypeScript port): the process-wide flags, the *)
(* parser's result, the graph layout (placement, sizing, routing), the     *)
(* A* path search and the path simplification.                             *)
(*                                                                         *)
(* The module holds several specifications over one set of variables:      *)
(*   GetPathSpec   one call of getPath, one loop iteration per step        *)
(*   EdgeSpec      determinePath called on an edge of a graph whose nodes  *)
(*                 have grid positions, then drawEdge                      *)
(*   MergeSpec     mergePath applied to a point sequence, then again       *)
(*   Spec          the library API used in one process: mermaidToAscii,    *)
(*                 mermaidFileToMap, Graph.makeGraph, createMapping, draw  *)
(*   JunctionSpec  drawings of one cell merged onto a canvas of one cell   *)
(*   CanvasSpec    one DrawingEngine under drawText and increaseSize       *)
(*   DirectionSpec a side of a node's block and its opposite               *)
(*   RenderSpec    one diagram source rendered in the two glyph sets       *)
(*   MappingSpec   createMapping on the graph of one diagram source, one   *)
(*                 call of its loops per step                              *)
(* A specification leaves the variables of the other ones at their idle    *)
(* values.                                                                 *)
(***************************************************************************)
EXTENDS Integers, Sequences, FiniteSets, TLC

VARIABLES
    \* ---- process-wide flags (types/common.ts) ----
    useAscii,        \* export let useAscii
    graphDirection,  \* export let graphDirection
    \* ---- one getPath call ----
    pfFrom,          \* argument from
    pfTo,            \* argument to
    pfGrid,          \* the keys of the occupancy map behind the isFreeInGrid callback
    search,          \* the locals of getPath: pq (PriorityQueue.items), costSoFar,
                     \* cameFrom (NullCoord for null), status ("idle", "running",
                     \* "returned", "thrown", "outside"), path (the returned path)
    pfIter,          \* parity of the loop iterations made outside the tracked window
    \* ---- one GraphImpl ----
    graph,           \* nodes, edges, grid (its keys), columnWidth, rowHeight, drawing
    ePc,             \* EdgeSpec: where the caller of determinePath / drawEdge is
    \* ---- mergePath ----
    mpPath,          \* the argument
    mpOnce,          \* mergePath(mpPath)
    mpTwice,         \* mergePath(mergePath(mpPath))
    mpPc,            \* "idle" | "start" | "once" | "twice"
    \* ---- the caller of the library ----
    props,           \* the GraphProperties objects mermaidFileToMap has returned
    built,           \* which of them `graph` was made from, and how far it has got
    result,          \* the outcome of the last call
    \* ---- the drawing layer (drawing.ts) ----
    canvas,          \* DrawingEngine.canvas: the columns of the character buffer
    lastOp,          \* the last call made on the drawing layer, with its arguments
    \* ---- one layout and its renders ----
    lay,             \* a diagram source, the graph made from it and how far it has got
    render           \* what draw() makes of that graph in the two glyph sets: the
                     \* canvas returned, the fragments of each edge and the canvas
                     \* with the boxes only

flagVars == <<useAscii, graphDirection>>

pathVars == <<pfFrom, pfTo, pfGrid, search, pfIter>>

edgeVars == <<graph, ePc>>

mergeVars == <<mpPath, mpOnce, mpTwice, mpPc>>

apiVars == <<props, built, result>>

\* the state of the drawing layer and of one layout
drawVars == <<canvas, lastOp, lay, render>>

allVars == <<flagVars, pathVars, edgeVars, mergeVars, apiVars, drawVars>>

----------------------------------------------------------------------------
(* Bounds *)

\* Largest coordinate of a start cell, goal cell or node position drawn as input.
MaxCoord == 3
\* Width of the band of cells beyond the goal and the occupied cells in which
\* the search is followed cell by cell; every occupied cell lies inside the
\* window.
Margin == 4

GridMax == MaxCoord + 2 + Margin

----------------------------------------------------------------------------
(* Coordinates and directions: types/common.ts, types/direction.ts *)

GridCoord(x, y) == [x |-> x, y |-> y]

\* null in cameFrom
NullCoord == GridCoord(-1, -1)

\* The two values a number of the code can have that are no number: the
\* value read from beyond the end of an array, and the sum made with it.
UndefinedNumber == -1000
NaN == -1001

IsNumber(v) == v # UndefinedNumber /\ v # NaN

\* a + b, a < b and a === b
Plus(a, b) == IF IsNumber(a) /\ IsNumber(b) THEN a + b ELSE NaN

Less(a, b) == IsNumber(a) /\ IsNumber(b) /\ a < b

Same(a, b) == a = b /\ a # NaN

abs(x) == IF x < 0 THEN -x ELSE x

\* the element of a one-element set: { e(x) : x \in {v} } works out v once,
\* as an assignment to a local const does
The(S) == CHOOSE x \in S : TRUE

max(x, y) == IF x > y THEN x ELSE y

min(x, y) == IF x < y THEN x ELSE y

Up == GridCoord(1, 0)
Down == GridCoord(1, 2)
Left == GridCoord(0, 1)
Right == GridCoord(2, 1)
UpperRight == GridCoord(2, 0)
UpperLeft == GridCoord(0, 0)
LowerRight == GridCoord(2, 2)
LowerLeft == GridCoord(0, 2)
Middle == GridCoord(1, 1)

\* GridCoord.direction(dir)
direction(c, dir) == GridCoord(Plus(c.x, dir.x), Plus(c.y, dir.y))

getOpposite_turn(d) == GridCoord(2 - d.y, d.x)

getOpposite(d) ==
    CASE d = Up -> Down
      [] d = Down -> Up
      [] d = Left -> Right
      [] d = Right -> Left
      [] d = UpperRight -> LowerLeft
      [] d = UpperLeft -> LowerRight
      [] d = LowerRight -> UpperLeft
      [] d = LowerLeft -> UpperRight
      [] d = Middle -> Middle

determineDirection(from, to) ==
    IF Same(from.x, to.x) THEN (IF Less(from.y, to.y) THEN Down ELSE Up)
    ELSE IF Same(from.y, to.y) THEN (IF Less(from.x, to.x) THEN Right ELSE Left)
    ELSE IF Less(from.x, to.x) THEN (IF Less(from.y, to.y) THEN LowerRight ELSE UpperRight)
    ELSE (IF Less(from.y, to.y) THEN LowerLeft ELSE UpperLeft)

----------------------------------------------------------------------------
(* The occupancy map: GraphImpl.grid, GraphImpl.isFreeInGrid *)

\* the 3x3 block reserveSpotInGrid writes for a node at c
Block(c) == { GridCoord(Plus(c.x, dx), Plus(c.y, dy)) : dx \in 0..2, dy \in 0..2 }

Blocks(cs) == UNION { Block(c) : c \in cs }

isFreeInGrid_anyCell(c, g) == ~(Less(c.x, 0) \/ Less(c.y, 0))

isFreeInGrid(c, g) == ~(Less(c.x, 0) \/ Less(c.y, 0)) /\ c \notin g

----------------------------------------------------------------------------
(* pathfinding.ts *)

\* a heuristic that rewards leaving the row or column of the goal
heuristic_penaltyOnLine(a, b) ==
    LET absX == abs(a.x - b.x)
        absY == abs(a.y - b.y)
    IN IF absX = 0 \/ absY = 0 THEN absX + absY + 1 ELSE absX + absY

heuristic(a, b) ==
    LET absX == abs(a.x - b.x)
        absY == abs(a.y - b.y)
    IN IF absX = 0 \/ absY = 0 THEN absX + absY ELSE absX + absY + 1

\* a push that puts the item first, whatever its priority
PQPush_first(items, item) == <<item>> \o items

\* PriorityQueue.push: append, then a stable sort by priority
PQPush(items, item) ==
    LET k == Cardinality({ i \in 1..Len(items) : items[i].priority <= item.priority })
    IN SubSeq(items, 1, k) \o <<item>> \o SubSeq(items, k + 1, Len(items))

\* the four moves, in the order of the directions array
Directions == << GridCoord(1, 0), GridCoord(-1, 0), GridCoord(0, 1), GridCoord(0, -1) >>

\* the state getPath starts its loop in
InitSearch(from) ==
    [ pq |-> << [coord |-> from, priority |-> 0] >>,
      costSoFar |-> (from :> 0),
      cameFrom |-> (from :> NullCoord),
      status |-> "running",
      path |-> << >> ]

\* the body of `for (const dir of directions)` for one neighbour
Relax(s, current, next, to, g) ==
    IF ~isFreeInGrid(next, g) /\ next # to
    THEN s
    ELSE LET newCost == s.costSoFar[current] + 1
         IN IF next \notin DOMAIN s.costSoFar \/ newCost < s.costSoFar[next]
            THEN [ s EXCEPT
                     !.costSoFar = (next :> newCost) @@ @,
                     !.pq = PQPush(@, [coord |-> next, priority |-> newCost + heuristic(next, to)]),
                     !.cameFrom = (next :> current) @@ @ ]
            ELSE s

RECURSIVE Expand(_, _, _, _, _)
Expand(s, current, i, to, g) ==
    IF i > Len(Directions) THEN s
    ELSE Expand(Relax(s, current, GridCoord(current.x + Directions[i].x,
                                            current.y + Directions[i].y), to, g),
                current, i + 1, to, g)

\* a reconstruction that stops before the cell that has no predecessor
RECURSIVE ReconstructPath_dropStart(_, _)
ReconstructPath_dropStart(cf, c) ==
    IF c = NullCoord \/ c \notin DOMAIN cf \/ cf[c] = NullCoord THEN << >>
    ELSE ReconstructPath_dropStart(cf, cf[c]) \o <<c>>

\* the path reconstruction: unshift the cell, follow cameFrom until null
RECURSIVE ReconstructPath(_, _)
ReconstructPath(cf, c) ==
    IF c = NullCoord THEN << >>
    ELSE ReconstructPath(cf, IF c \in DOMAIN cf THEN cf[c] ELSE NullCoord) \o <<c>>

InWindow(c) == c.x <= GridMax /\ c.y <= GridMax

\* the window of one search: Margin cells beyond the goal and beyond every
\* occupied cell, and never less than the window of the drawn inputs
WindowMax(to, g) ==
    LET S == { GridMax } \cup { c.x + Margin : c \in g \cup {to} }
                        \cup { c.y + Margin : c \in g \cup {to} }
    IN CHOOSE m \in S : \A w \in S : m >= w

InWindowOf(c, lim) == c.x <= lim /\ c.y <= lim

\* one iteration of `while (pq.length() > 0)`, and the throw after the loop
SearchStep(s, to, g) ==
    IF Len(s.pq) = 0
    THEN [ s EXCEPT !.status = "thrown" ]
    ELSE LET current == Head(s.pq).coord
             popped == [ s EXCEPT !.pq = Tail(@) ]
         IN IF current = to
            THEN [ popped EXCEPT !.status = "returned",
                                 !.path = ReconstructPath(s.cameFrom, current) ]
            ELSE IF ~InWindowOf(current, WindowMax(to, g))
            THEN [ popped EXCEPT !.status = "outside" ]
            ELSE Expand(popped, current, 1, to, g)

\* getPath(from, to, isFreeInGrid) as a function of its arguments; status
\* "outside" stands for a search that has left the tracked window
RECURSIVE RunSearch(_, _, _)
RunSearch(s, to, g) ==
    IF s.status # "running" THEN s ELSE RunSearch(SearchStep(s, to, g), to, g)

getPath(from, to, g) == RunSearch(InitSearch(from), to, g)

\* mergePath that records idx where the code records idx + 1
mergePath_offByOne(path) ==
    IF Len(path) <= 2 THEN path
    ELSE LET indexToRemove ==
                 { idx : idx \in { i \in 0..(Len(path) - 3) :
                       determineDirection(path[i + 1], path[i + 2])
                         = determineDirection(path[i + 2], path[i + 3]) } }
             RECURSIVE Build(_)
             Build(i) == IF i > Len(path) THEN << >>
                         ELSE (IF (i - 1) \notin indexToRemove THEN <<path[i]>> ELSE << >>)
                              \o Build(i + 1)
         IN Build(1)

\* mergePath: drop every point whose incoming and outgoing directions agree
mergePath(path) ==
    IF Len(path) <= 2 THEN path
    ELSE LET indexToRemove ==
                 { idx + 1 : idx \in { i \in 0..(Len(path) - 3) :
                       determineDirection(path[i + 1], path[i + 2])
                         = determineDirection(path[i + 2], path[i + 3]) } }
             keep(i) == (i - 1) \notin indexToRemove
             RECURSIVE Build(_)
             Build(i) == IF i > Len(path) THEN << >>
                         ELSE (IF keep(i) THEN <<path[i]>> ELSE << >>) \o Build(i + 1)
         IN Build(1)

----------------------------------------------------------------------------
(* Edge routing: types/direction.ts, EdgeImpl.determinePath *)

\* the pairs of the two orientations exchanged
selfReferenceDirection_swapped(gd) ==
    IF gd = "LR" THEN <<Down, Right, Right, Down>> ELSE <<Right, Down, Down, Right>>

selfReferenceDirection(gd) ==
    IF gd = "LR" THEN <<Right, Down, Down, Right>> ELSE <<Down, Right, Right, Down>>

\* <<preferredDir, preferredOppositeDir, alternativeDir, alternativeOppositeDir>>
determineStartAndEndDir(fromCoord, toCoord, isSelfReference, gd) ==
    IF isSelfReference THEN selfReferenceDirection(gd)
    ELSE LET d == determineDirection(fromCoord, toCoord)
         IN CASE d = LowerRight ->
                   (IF gd = "LR" THEN <<Down, Left, Right, Up>> ELSE <<Right, Up, Down, Left>>)
              [] d = UpperRight ->
                   (IF gd = "LR" THEN <<Up, Left, Right, Down>> ELSE <<Right, Down, Up, Left>>)
              [] d = LowerLeft ->
                   (IF gd = "LR" THEN <<Down, Right, Left, Up>> ELSE <<Left, Up, Down, Right>>)
              [] d = UpperLeft ->
                   (IF gd = "LR" THEN <<Up, Right, Left, Down>> ELSE <<Left, Down, Up, Right>>)
              [] OTHER -> <<d, getOpposite(d), d, getOpposite(d)>>

\* a new EdgeImpl
NewEdge(from, to, text) ==
    [ from |-> from, to |-> to, text |-> text, path |-> << >>, labelLine |-> << >>,
      startDir |-> NullCoord, endDir |-> NullCoord ]

\* the two candidate searches of an edge: start cell, goal cell and directions
Candidates(e, ns, gd) ==
    LET dirs == determineStartAndEndDir(ns[e.from].gridCoord, ns[e.to].gridCoord,
                                        e.from = e.to, gd)
    IN [ preferredDir |-> dirs[1], preferredOppositeDir |-> dirs[2],
         alternativeDir |-> dirs[3], alternativeOppositeDir |-> dirs[4],
         from |-> direction(ns[e.from].gridCoord, dirs[1]),
         to |-> direction(ns[e.to].gridCoord, dirs[2]),
         altFrom |-> direction(ns[e.from].gridCoord, dirs[3]),
         altTo |-> direction(ns[e.to].gridCoord, dirs[4]) ]

\* EdgeImpl.determinePath: outcome "returned" with the edge as the call leaves
\* it, or "hang" when one of its searches does not end
determinePath(e, ns, g, gd) ==
    IF ns[e.from].gridCoord = NullCoord \/ ns[e.to].gridCoord = NullCoord
    THEN [ outcome |-> "returned", edge |-> e ]
    ELSE LET c == Candidates(e, ns, gd)
             preferred == getPath(c.from, c.to, g)
             alternative == getPath(c.altFrom, c.altTo, g)
             \* let alternativePath: GridCoord[] = []
             alternativePath == << >>
         IN IF preferred.status = "outside"
            THEN [ outcome |-> "hang", edge |-> e ]
            ELSE IF preferred.status = "thrown"
            THEN \* catch: the alternative directions, with the alternative path
                 \* as it is before any search for it
                 [ outcome |-> "returned",
                   edge |-> [ e EXCEPT !.startDir = c.alternativeDir,
                                       !.endDir = c.alternativeOppositeDir,
                                       !.path = alternativePath ] ]
            ELSE IF alternative.status = "outside"
            THEN [ outcome |-> "hang", edge |-> e ]
            ELSE IF alternative.status = "thrown"
            THEN [ outcome |-> "returned",
                   edge |-> [ e EXCEPT !.startDir = c.preferredDir,
                                       !.endDir = c.preferredOppositeDir,
                                       !.path = mergePath(preferred.path) ] ]
            ELSE IF Len(mergePath(preferred.path)) <= Len(mergePath(alternative.path))
            THEN [ outcome |-> "returned",
                   edge |-> [ e EXCEPT !.startDir = c.preferredDir,
                                       !.endDir = c.preferredOppositeDir,
                                       !.path = mergePath(preferred.path) ] ]
            ELSE [ outcome |-> "returned",
                   edge |-> [ e EXCEPT !.startDir = c.alternativeDir,
                                       !.endDir = c.alternativeOppositeDir,
                                       !.path = mergePath(alternative.path) ] ]

\* the early returns of GraphImpl.drawEdge and of drawEdge in drawing.ts: the
\* five fragments of the edge are empty drawings
drawEdgeIsEmpty(e, ns) ==
    \/ e.startDir = NullCoord
    \/ e.endDir = NullCoord
    \/ ns[e.from].gridCoord = NullCoord
    \/ ns[e.to].gridCoord = NullCoord
    \/ Len(e.path) = 0

----------------------------------------------------------------------------
(* The parser's result: mermaidFileToMap, setData, addNode *)

\* A diagram source is given by its first line (header, "" when there is no
\* line at all) and its content lines: an arrow line `parent -->|label| child`
\* (label "" for `-->`) or a line that holds a node name only.
ArrowLine(parent, child, label) ==
    [ kind |-> "arrow", parent |-> parent, child |-> child, label |-> label ]

NodeLine(name) == [ kind |-> "node", parent |-> name, child |-> name, label |-> "" ]

\* data: the insertion-ordered Map name -> TextEdge[], as a sequence of entries
DataHas(data, name) == \E i \in 1..Len(data) : data[i].name = name

\* addNode
addNode(data, name) ==
    IF DataHas(data, name) THEN data ELSE Append(data, [ name |-> name, children |-> << >> ])

\* setData
setData(data, parent, child, label) ==
    LET edge == [ child |-> child, label |-> label ]
        withParent ==
            IF DataHas(data, parent)
            THEN [ i \in 1..Len(data) |->
                     IF data[i].name = parent
                     THEN [ data[i] EXCEPT !.children = Append(@, edge) ]
                     ELSE data[i] ]
            ELSE Append(data, [ name |-> parent, children |-> <<edge>> ])
    IN addNode(withParent, child)

RECURSIVE ParseLines(_, _, _)
ParseLines(lines, i, data) ==
    IF i > Len(lines) THEN data
    ELSE The({ ParseLines(lines, i + 1, d)
               : d \in { IF lines[i].kind = "arrow"
                         THEN setData(data, lines[i].parent, lines[i].child, lines[i].label)
                         ELSE addNode(data, lines[i].parent) } })

\* mermaidFileToMap: the properties it returns, or the error it throws; the
\* call of setGraphDirection is in the actions that use it
mermaidFileToMap(src) ==
    IF src.header = ""
    THEN [ status |-> "error", error |-> "Empty mermaid content",
           graphDirection |-> "", data |-> << >> ]
    ELSE IF src.header \in {"graph LR", "flowchart LR"}
    THEN [ status |-> "ok", error |-> "", graphDirection |-> "LR",
           data |-> ParseLines(src.lines, 1, << >>) ]
    ELSE IF src.header \in {"graph TD", "flowchart TD"}
    THEN [ status |-> "ok", error |-> "", graphDirection |-> "TD",
           data |-> ParseLines(src.lines, 1, << >>) ]
    ELSE [ status |-> "error", error |-> "first line should define the graph",
           graphDirection |-> "", data |-> << >> ]

----------------------------------------------------------------------------
(* GraphImpl: makeGraph *)

BOX_BORDER_PADDING == 1
PADDING_BETWEEN_X == 5
PADDING_BETWEEN_Y == 5

\* undefined node.drawing / node.drawingCoord
Undefined == NullCoord

\* a new NodeImpl; its index is its position in g.nodes
NewNode(name) ==
    [ name |-> name, gridCoord |-> Undefined, drawingCoord |-> Undefined,
      drawing |-> Undefined, drawn |-> FALSE ]

\* a new GraphImpl; drawing is the size of its canvas, new DrawingEngine(0, 0)
NewGraph ==
    [ nodes |-> << >>, edges |-> << >>, grid |-> {},
      columnWidth |-> << >>, rowHeight |-> << >>, drawing |-> GridCoord(0, 0) ]

\* getNode: the position of the node, 0 for null
getNode(g, name) ==
    IF \E i \in 1..Len(g.nodes) : g.nodes[i].name = name
    THEN CHOOSE i \in 1..Len(g.nodes) : g.nodes[i].name = name
    ELSE 0

\* get or create a node
WithNode(g, name) ==
    IF getNode(g, name) # 0 THEN g ELSE [ g EXCEPT !.nodes = Append(@, NewNode(name)) ]

RECURSIVE MakeChildren(_, _, _, _)
MakeChildren(g, parent, children, j) ==
    IF j > Len(children) THEN g
    ELSE LET g1 == WithNode(g, children[j].child)
             e == NewEdge(getNode(g1, parent), getNode(g1, children[j].child),
                          children[j].label)
         IN The({ MakeChildren(g2, parent, children, j + 1)
                  : g2 \in { [ g1 EXCEPT !.edges = Append(@, e) ] } })

RECURSIVE MakeEntries(_, _, _)
MakeEntries(g, data, i) ==
    IF i > Len(data) THEN g
    ELSE The({ MakeEntries(g1, data, i + 1)
               : g1 \in { MakeChildren(WithNode(g, data[i].name), data[i].name,
                                       data[i].children, 1) } })

makeGraph(data) == MakeEntries(NewGraph, data, 1)

----------------------------------------------------------------------------
(* GraphImpl.createMapping: placement *)

\* map.get(i) || 0
Get(m, i) == IF i \in DOMAIN m THEN m[i] ELSE 0

Put(m, i, v) == (i :> v) @@ m

Has(c) == c # Undefined

\* getChildren: the targets of the edges that leave node n, in edge order
getChildren(g, n) ==
    LET RECURSIVE Collect(_)
        Collect(k) == IF k > Len(g.edges) THEN << >>
                      ELSE (IF g.edges[k].from = n THEN <<g.edges[k].to>> ELSE << >>)
                           \o Collect(k + 1)
    IN Collect(1)

Range(seq) == { seq[i] : i \in 1..Len(seq) }

\* a first loop that takes the first node only for a root
RootNodes_first(g, i, nodesFound) == IF Len(g.nodes) = 0 THEN << >> ELSE <<1>>

\* the first loop of createMapping: the nodes not seen before their turn
RECURSIVE RootNodes(_, _, _)
RootNodes(g, i, nodesFound) ==
    IF i > Len(g.nodes) THEN << >>
    ELSE (IF i \notin nodesFound THEN <<i>> ELSE << >>)
         \o The({ RootNodes(g, i + 1, found)
                  : found \in { nodesFound \cup {i} \cup Range(getChildren(g, i)) } })

\* a reservation that moves on along the flow, not across it
RECURSIVE reserveSpotInGrid_alongFlow(_, _, _)
reserveSpotInGrid_alongFlow(gridMap, requestedCoord, gd) ==
    IF requestedCoord \in gridMap
    THEN IF gd = "LR"
         THEN reserveSpotInGrid_alongFlow(gridMap, GridCoord(requestedCoord.x + 4, requestedCoord.y), gd)
         ELSE reserveSpotInGrid_alongFlow(gridMap, GridCoord(requestedCoord.x, requestedCoord.y + 4), gd)
    ELSE [ grid |-> gridMap \cup Block(requestedCoord), coord |-> requestedCoord ]

\* a reservation that does not test the requested cell
reserveSpotInGrid_noTest(gridMap, requestedCoord, gd) ==
    [ grid |-> gridMap \cup Block(requestedCoord), coord |-> requestedCoord ]

\* reserveSpotInGrid: the first free spot from requestedCoord on, in steps of
\* 4 across the flow; only the requested cell itself is tested
RECURSIVE reserveSpotInGrid(_, _, _)
reserveSpotInGrid(gridMap, requestedCoord, gd) ==
    IF requestedCoord \in gridMap
    THEN IF gd = "LR"
         THEN reserveSpotInGrid(gridMap, GridCoord(requestedCoord.x, Plus(requestedCoord.y, 4)), gd)
         ELSE reserveSpotInGrid(gridMap, GridCoord(Plus(requestedCoord.x, 4), requestedCoord.y), gd)
    ELSE [ grid |-> gridMap \cup Block(requestedCoord), coord |-> requestedCoord ]

\* place node n at the spot reserved from the requested coordinate
Place(g, n, requestedCoord, gd) ==
    LET r == reserveSpotInGrid(g.grid, requestedCoord, gd)
    IN [ g EXCEPT !.grid = r.grid, !.nodes[n].gridCoord = r.coord ]

\* the loop over rootNodes; highest is highestPositionPerLevel[0]
RECURSIVE PlaceRoots(_, _, _, _, _)
PlaceRoots(g, roots, k, highest, gd) ==
    IF k > Len(roots) THEN g
    ELSE The({ PlaceRoots(g1, roots, k + 1, highest + 4, gd)
               : g1 \in { Place(g, roots[k],
                                IF gd = "LR" THEN GridCoord(0, highest) ELSE GridCoord(highest, 0),
                                gd) } })

\* the length of highestPositionPerLevel
LevelSlots == 100

\* highestPositionPerLevel[level]: 0 at first in each of its slots, undefined
\* beyond them
LevelGet(hpl, level) ==
    IF level \in DOMAIN hpl THEN hpl[level]
    ELSE IF IsNumber(level) /\ 0 <= level /\ level < LevelSlots THEN 0
    ELSE UndefinedNumber

\* the inner loop over the children of one node: st is the graph and
\* highestPositionPerLevel
RECURSIVE PlaceChildrenOf(_, _, _, _, _, _)
PlaceChildrenOf(st, children, j, childLevel, highestPosition, gd) ==
    IF j > Len(children) THEN st
    ELSE IF Has(st.g.nodes[children[j]].gridCoord)
    THEN PlaceChildrenOf(st, children, j + 1, childLevel, highestPosition, gd)
    ELSE The({ PlaceChildrenOf(st1, children, j + 1, childLevel, highestPosition, gd)
               : st1 \in { [ g |-> Place(st.g, children[j],
                                         IF gd = "LR" THEN GridCoord(childLevel, highestPosition)
                                         ELSE GridCoord(highestPosition, childLevel),
                                         gd),
                             hpl |-> Put(st.hpl, childLevel, Plus(highestPosition, 4)) ] } })

\* the loop over all nodes that places their children
RECURSIVE PlaceChildren(_, _, _)
PlaceChildren(st, i, gd) ==
    IF i > Len(st.g.nodes) THEN st
    ELSE IF ~Has(st.g.nodes[i].gridCoord)
    THEN PlaceChildren(st, i + 1, gd)
    ELSE LET c == st.g.nodes[i].gridCoord
             childLevel == IF gd = "LR" THEN Plus(c.x, 4) ELSE Plus(c.y, 4)
         IN The({ PlaceChildren(st1, i + 1, gd)
                  : st1 \in { PlaceChildrenOf(st, getChildren(st.g, i), 1, childLevel,
                                              LevelGet(st.hpl, childLevel), gd) } })

\* createMapping up to the end of the placement
Placement(g, gd) ==
    LET roots == RootNodes(g, 1, {})
        g1 == PlaceRoots(g, roots, 1, 0, gd)
    IN PlaceChildren([ g |-> g1, hpl |-> (0 :> 4 * Len(roots)) ], 1, gd).g

----------------------------------------------------------------------------
(* GraphImpl.createMapping: sizing, routing, labels, coordinates *)

\* setColumnWidth; the three writes of each of its loops are
\* m.set(at + idx, max(m.get(at + idx) || 0, sizes[idx]))
setColumnWidth(g, n) ==
    LET c == g.nodes[n].gridCoord
        cols == <<1, 2 * BOX_BORDER_PADDING + Len(g.nodes[n].name), 1>>
        rows == <<1, 1 + 2 * BOX_BORDER_PADDING, 1>>
        Written(m, at, sizes) ==
            [ i \in DOMAIN m \cup { Plus(at, idx) : idx \in 0..2 } |->
                LET S == { Get(m, i) } \cup { sizes[idx + 1] : idx \in { j \in 0..2 : Plus(at, j) = i } }
                IN CHOOSE v \in S : \A w \in S : v >= w ]
        cw1 == Written(g.columnWidth, c.x, cols)
        rh1 == Written(g.rowHeight, c.y, rows)
        cw2 == IF Less(0, c.x) THEN Put(cw1, c.x - 1, PADDING_BETWEEN_X) ELSE cw1
        rh2 == IF Less(0, c.y) THEN Put(rh1, c.y - 1, PADDING_BETWEEN_Y) ELSE rh1
    IN IF ~Has(c) THEN g ELSE [ g EXCEPT !.columnWidth = cw2, !.rowHeight = rh2 ]

RECURSIVE SizeNodes(_, _)
SizeNodes(g, i) ==
    IF i > Len(g.nodes) THEN g
    ELSE The({ SizeNodes(g1, i + 1) : g1 \in { setColumnWidth(g, i) } })

\* a sizing of the path cells that writes the default size over the size held
RECURSIVE increaseGridSizeForPath_always(_, _, _)
increaseGridSizeForPath_always(g, path, k) ==
    IF k > Len(path) THEN g
    ELSE increaseGridSizeForPath_always(
             [ g EXCEPT !.columnWidth = Put(@, path[k].x, PADDING_BETWEEN_X \div 2),
                        !.rowHeight = Put(@, path[k].y, PADDING_BETWEEN_Y \div 2) ],
             path, k + 1)

\* increaseGridSizeForPath
RECURSIVE increaseGridSizeForPath(_, _, _)
increaseGridSizeForPath(g, path, k) ==
    IF k > Len(path) THEN g
    ELSE LET c == path[k]
             cw == IF c.x \in DOMAIN g.columnWidth THEN g.columnWidth
                   ELSE Put(g.columnWidth, c.x, PADDING_BETWEEN_X \div 2)
             rh == IF c.y \in DOMAIN g.rowHeight THEN g.rowHeight
                   ELSE Put(g.rowHeight, c.y, PADDING_BETWEEN_Y \div 2)
         IN increaseGridSizeForPath([ g EXCEPT !.columnWidth = cw, !.rowHeight = rh ],
                                    path, k + 1)

\* calculateLineWidth
calculateLineWidth(g, line) == Get(g.columnWidth, line[1].x) + Get(g.columnWidth, line[2].x)

\* the loop of determineLabelLine from step i on: the line it ends with
RECURSIVE LabelLoop(_, _, _, _, _, _, _)
LabelLoop(g, path, lenLabel, i, prevStep, largestLineSize, largestLine) ==
    IF i > Len(path) THEN largestLine
    ELSE LET line == <<prevStep, path[i]>>
             lineWidth == calculateLineWidth(g, line)
         IN IF lineWidth >= lenLabel THEN line
            ELSE IF lineWidth > largestLineSize
            THEN LabelLoop(g, path, lenLabel, i + 1, path[i], lineWidth, line)
            ELSE LabelLoop(g, path, lenLabel, i + 1, path[i], largestLineSize, largestLine)

\* determineLabelLine for edge k; with a label and a path of fewer than two
\* cells it reads .x of undefined: a TypeError
determineLabelLine(g, k) ==
    LET e == g.edges[k]
        lenLabel == Len(e.text)
    IN IF lenLabel = 0 THEN [ outcome |-> "returned", g |-> g ]
       ELSE IF Len(e.path) < 2 THEN [ outcome |-> "TypeError", g |-> g ]
       ELSE LET largestLine == LabelLoop(g, e.path, lenLabel, 2, e.path[1], 0,
                                         <<e.path[1], e.path[2]>>)
                maxX == max(largestLine[1].x, largestLine[2].x)
                minX == min(largestLine[1].x, largestLine[2].x)
                middleX == minX + ((maxX - minX) \div 2)
            IN [ outcome |-> "returned",
                 g |-> [ g EXCEPT
                           !.columnWidth = Put(@, middleX, max(Get(@, middleX), lenLabel + 2)),
                           !.edges[k].labelLine = largestLine ] ]

\* the loop over the edges: determinePath, increaseGridSizeForPath, determineLabelLine
RECURSIVE RouteEdges(_, _, _)
RouteEdges(g, k, gd) ==
    IF k > Len(g.edges) THEN [ outcome |-> "returned", g |-> g ]
    ELSE The({ The({ The({
             IF r.outcome # "returned" THEN [ outcome |-> r.outcome, g |-> g ]
             ELSE IF l.outcome # "returned" THEN [ outcome |-> l.outcome, g |-> g2 ]
             ELSE RouteEdges(l.g, k + 1, gd)
           : l \in { determineLabelLine(g2, k) } })
           : g2 \in { increaseGridSizeForPath([ g EXCEPT !.edges[k] = r.edge ],
                                              r.edge.path, 1) } })
           : r \in { determinePath(g.edges[k], g.nodes, g.grid, gd) } })

\* the sum of m.get(i) || 0 for i from lo to hi, by halves
RECURSIVE SumRange(_, _, _)
SumRange(m, lo, hi) ==
    IF lo > hi THEN 0
    ELSE IF lo = hi THEN Get(m, lo)
    ELSE LET mid == (lo + hi) \div 2
         IN SumRange(m, lo, mid) + SumRange(m, mid + 1, hi)

\* `for (let i = 0; i < n; i++) sum += m.get(i) || 0`
SumBelow(m, n) == SumRange(m, 0, n - 1)

\* gridToDrawingCoord, without and with a direction
gridToDrawingCoord(g, c) ==
    GridCoord(SumBelow(g.columnWidth, c.x) + (Get(g.columnWidth, c.x) \div 2),
              SumBelow(g.rowHeight, c.y) + (Get(g.rowHeight, c.y) \div 2))

gridToDrawingCoordDir(g, c, dir) ==
    gridToDrawingCoord(g, GridCoord(Plus(c.x, dir.x), Plus(c.y, dir.y)))

\* the length of the arrays setDrawing copies the size maps to
ArraySlots == 100

\* setDrawing and the size of the box drawBox makes: two grid cells wide and high
setDrawing(g, n) ==
    LET c == g.nodes[n].gridCoord
        at(m, i) == IF IsNumber(i) /\ i < ArraySlots THEN Get(m, i) ELSE 0
    IN GridCoord(at(g.columnWidth, c.x) + at(g.columnWidth, Plus(c.x, 1)),
                 at(g.rowHeight, c.y) + at(g.rowHeight, Plus(c.y, 1)))

RECURSIVE ResolveNodes(_, _)
ResolveNodes(g, i) ==
    IF i > Len(g.nodes) THEN g
    ELSE IF ~Has(g.nodes[i].gridCoord) THEN ResolveNodes(g, i + 1)
    ELSE The({ ResolveNodes(g1, i + 1)
               : g1 \in { [ g EXCEPT !.nodes[i].drawingCoord = gridToDrawingCoord(g, g.nodes[i].gridCoord),
                                     !.nodes[i].drawing = setDrawing(g, i) ] } })

\* the sum of the values of the keys D of a map
SumValues(m, D) ==
    IF D = {} THEN 0
    ELSE SumRange([ i \in D |-> m[i] ],
                  CHOOSE lo \in D : \A i \in D : lo <= i,
                  CHOOSE hi \in D : \A i \in D : hi >= i)

\* DrawingEngine.increaseSize, on the size of the canvas
increaseSize(size, x, y) == GridCoord(max(x, size.x), max(y, size.y))

\* setDrawingSizeToGridConstraints
setDrawingSizeToGridConstraints(g) ==
    [ g EXCEPT !.drawing = increaseSize(@, SumValues(g.columnWidth, DOMAIN g.columnWidth) - 1,
                                        SumValues(g.rowHeight, DOMAIN g.rowHeight) - 1) ]

\* createMapping: the graph it leaves, and whether it returned, threw or
\* does not end
createMapping(g, gd) ==
    The({ The({ The({
        IF routed.outcome # "returned" THEN routed
        ELSE The({ [ outcome |-> "returned", g |-> setDrawingSizeToGridConstraints(resolved) ]
                   : resolved \in { ResolveNodes(routed.g, 1) } })
      : routed \in { RouteEdges(sized, 1, gd) } })
      : sized \in { SizeNodes(placed, 1) } })
      : placed \in { Placement(g, gd) } })

----------------------------------------------------------------------------
(* GraphImpl.draw *)

\* drawNode draws the node unless it has no drawing coordinate or no drawing
drawNodeDraws(n) == ~n.drawn /\ Has(n.drawingCoord) /\ Has(n.drawing)

\* draw: it marks the nodes it draws and returns the canvas, of which the
\* model keeps the glyph set used (the useAscii flag read by the drawing
\* routines), the nodes whose box is merged and the edges with fragments
draw(g, ascii) ==
    [ g |-> [ g EXCEPT !.nodes = [ i \in 1..Len(g.nodes) |->
                                     IF drawNodeDraws(g.nodes[i])
                                     THEN [ g.nodes[i] EXCEPT !.drawn = TRUE ]
                                     ELSE g.nodes[i] ] ],
      canvas |-> [ glyphs |-> IF ascii THEN "ascii" ELSE "unicode",
                   nodes |-> { i \in 1..Len(g.nodes) : drawNodeDraws(g.nodes[i]) },
                   edges |-> { k \in 1..Len(g.edges) : ~drawEdgeIsEmpty(g.edges[k], g.nodes) } ] ]

----------------------------------------------------------------------------
(* Idle values *)

IdleSearch == [ InitSearch(NullCoord) EXCEPT !.status = "idle" ]

PathIdle ==
    /\ pfFrom = NullCoord
    /\ pfTo = NullCoord
    /\ pfGrid = {}
    /\ search = IdleSearch
    /\ pfIter = 0

MergeIdle ==
    /\ mpPath = << >>
    /\ mpOnce = << >>
    /\ mpTwice = << >>
    /\ mpPc = "idle"

NoCanvas == [ glyphs |-> "", nodes |-> {}, edges |-> {} ]

NoLayout == [ nodes |-> << >>, paths |-> << >> ]

NoSrc == [ header |-> "", lines |-> << >> ]

NoResult ==
    [ call |-> "none", src |-> NoSrc, optUseAscii |-> FALSE, status |-> "", error |-> "",
      canvas |-> NoCanvas, layout |-> NoLayout, phase |-> "none" ]

ApiIdle ==
    /\ props = << >>
    /\ built = [ from |-> 0, phase |-> "none" ]
    /\ result = NoResult

DrawIdle ==
    /\ canvas = << >>
    /\ lastOp = [ op |-> "none" ]
    /\ lay = [ pc |-> "idle" ]
    /\ render = [ pc |-> "idle" ]

FlagsInit ==
    /\ useAscii = FALSE
    /\ graphDirection = "LR"

----------------------------------------------------------------------------
(* GetPathSpec: one call of getPath *)

Cells == { GridCoord(x, y) : x \in 0..MaxCoord, y \in 0..MaxCoord }

\* the occupancy maps drawn: none, one node, two nodes side by side
GridChoices ==
    { {}, Blocks({GridCoord(0, 0)}), Blocks({GridCoord(1, 1)}),
      Blocks({GridCoord(0, 0), GridCoord(4, 0)}) }

GetPathInit ==
    /\ FlagsInit
    /\ pfFrom \in Cells
    /\ pfTo \in Cells
    /\ pfGrid \in GridChoices
    /\ search = InitSearch(pfFrom)
    /\ pfIter = 0
    /\ graph = NewGraph
    /\ ePc = "idle"
    /\ MergeIdle
    /\ ApiIdle
    /\ DrawIdle

\* a loop iteration that pops a cell
LoopIteration ==
    /\ search.status = "running"
    /\ Len(search.pq) > 0
    /\ search' = SearchStep(search, pfTo, pfGrid)
    /\ UNCHANGED <<drawVars, flagVars, pfFrom, pfTo, pfGrid, pfIter, edgeVars, mergeVars, apiVars>>

\* the loop ends with an empty queue: throw new Error("No path found")
ThrowNoPath ==
    /\ search.status = "running"
    /\ Len(search.pq) = 0
    /\ search' = SearchStep(search, pfTo, pfGrid)
    /\ UNCHANGED <<drawVars, flagVars, pfFrom, pfTo, pfGrid, pfIter, edgeVars, mergeVars, apiVars>>

\* a loop iteration outside the window: every cell there is free, so the
\* iteration pushes at least one new cell and the queue stays non-empty
LoopOutside ==
    /\ search.status = "outside"
    /\ pfIter' = 1 - pfIter
    /\ UNCHANGED <<drawVars, flagVars, pfFrom, pfTo, pfGrid, search, edgeVars, mergeVars, apiVars>>

GetPathNext == LoopIteration \/ ThrowNoPath \/ LoopOutside

GetPathSpec == GetPathInit /\ [][GetPathNext]_allVars

\* with one node on the map
GetPathFairInit == GetPathInit /\ pfGrid = Blocks({GridCoord(0, 0)})

\* the loop is a plain while loop of a single thread: it keeps iterating
GetPathFairSpec ==
    GetPathFairInit /\ [][GetPathNext]_allVars /\ WF_allVars(GetPathNext)

----------------------------------------------------------------------------
(* EdgeSpec: determinePath called on an edge of a graph whose nodes have grid *)
(* positions and whose occupancy map holds their blocks, then drawEdge       *)

NodeCoords == { GridCoord(x, y) : x \in 0..(MaxCoord + 1), y \in 0..(MaxCoord + 1) }

\* further nodes on the map
BlockerChoices == { {}, {GridCoord(0, 0)}, {GridCoord(0, 0), GridCoord(3, 3)} }

Disjoint(cs) == \A a \in cs, b \in cs : a # b => Block(a) \cap Block(b) = {}

PlacedNode(name, c) == [ NewNode(name) EXCEPT !.gridCoord = c ]

EdgeInit ==
    /\ useAscii = FALSE
    /\ graphDirection \in {"LR", "TD"}
    /\ PathIdle
    /\ MergeIdle
    /\ ApiIdle
    /\ DrawIdle
    /\ \E a \in NodeCoords, b \in NodeCoords, bl \in BlockerChoices, self \in BOOLEAN :
         /\ IF self THEN a = b ELSE a # b
         /\ a \notin bl /\ b \notin bl
         /\ Disjoint({a, b} \cup bl)
         /\ graph = [ NewGraph EXCEPT
                        !.nodes = <<PlacedNode("A", a), PlacedNode("B", b)>>,
                        !.edges = << NewEdge(1, IF self THEN 1 ELSE 2, "") >>,
                        !.grid = Blocks({a, b} \cup bl) ]
    /\ ePc = "start"

\* e.determinePath(g) returns
DeterminePathReturns ==
    /\ ePc = "start"
    /\ LET r == determinePath(graph.edges[1], graph.nodes, graph.grid, graphDirection)
       IN /\ r.outcome = "returned"
          /\ graph' = [ graph EXCEPT !.edges[1] = r.edge ]
    /\ ePc' = "routed"
    /\ UNCHANGED <<drawVars, flagVars, pathVars, mergeVars, apiVars>>

\* e.determinePath(g) is in a search that does not end
DeterminePathHangs ==
    /\ ePc = "start"
    /\ determinePath(graph.edges[1], graph.nodes, graph.grid, graphDirection).outcome = "hang"
    /\ ePc' = "hang"
    /\ UNCHANGED <<drawVars, flagVars, pathVars, graph, mergeVars, apiVars>>

\* g.drawEdge(e) gives the fragments of the edge
DrawEdgeFragments ==
    /\ ePc = "routed"
    /\ ~drawEdgeIsEmpty(graph.edges[1], graph.nodes)
    /\ ePc' = "drawn"
    /\ UNCHANGED <<drawVars, flagVars, pathVars, graph, mergeVars, apiVars>>

\* g.drawEdge(e) gives five empty drawings: nothing of the edge is drawn
DrawEdgeEmpty ==
    /\ ePc = "routed"
    /\ drawEdgeIsEmpty(graph.edges[1], graph.nodes)
    /\ ePc' = "not drawn"
    /\ UNCHANGED <<drawVars, flagVars, pathVars, graph, mergeVars, apiVars>>

EdgeNext == DeterminePathReturns \/ DeterminePathHangs \/ DrawEdgeFragments \/ DrawEdgeEmpty

EdgeSpec == EdgeInit /\ [][EdgeNext]_allVars

----------------------------------------------------------------------------
(* MergeSpec: mergePath applied to a sequence of points, then to its result *)

\* Largest coordinate of a point and largest number of points of a sequence.
MaxPoint == 2
MaxLen == 4

\* the points on the two axes: runs in the four directions of a path, and
\* diagonal steps between the axes
Points == { GridCoord(x, 0) : x \in 0..MaxPoint } \cup { GridCoord(0, y) : y \in 0..MaxPoint }

RECURSIVE SeqsOfLen(_)
SeqsOfLen(n) ==
    IF n = 0 THEN { << >> }
    ELSE { Append(p, c) : p \in SeqsOfLen(n - 1), c \in Points }

MergeInit ==
    /\ FlagsInit
    /\ PathIdle
    /\ graph = NewGraph
    /\ ePc = "idle"
    /\ ApiIdle
    /\ DrawIdle
    /\ mpPath \in UNION { SeqsOfLen(n) : n \in 0..MaxLen }
    /\ mpOnce = << >>
    /\ mpTwice = << >>
    /\ mpPc = "start"

MergeOnce ==
    /\ mpPc = "start"
    /\ mpOnce' = mergePath(mpPath)
    /\ mpPc' = "once"
    /\ UNCHANGED <<drawVars, flagVars, pathVars, edgeVars, apiVars, mpPath, mpTwice>>

MergeAgain ==
    /\ mpPc = "once"
    /\ mpTwice' = mergePath(mpOnce)
    /\ mpPc' = "twice"
    /\ UNCHANGED <<drawVars, flagVars, pathVars, edgeVars, apiVars, mpPath, mpOnce>>

MergeNext == MergeOnce \/ MergeAgain

MergeSpec == MergeInit /\ [][MergeNext]_allVars

----------------------------------------------------------------------------
(* Spec: the library used by one process *)

\* Largest number of GraphProperties objects the caller keeps.
MaxProps == 2

\* the diagram sources given to the library
Sources ==
    { [ header |-> "graph LR", lines |-> << ArrowLine("A", "B", "") >> ],
      [ header |-> "graph TD", lines |-> << ArrowLine("A", "B", "yes") >> ],
      [ header |-> "flowchart TD", lines |-> << NodeLine("A"), ArrowLine("A", "A", "") >> ],
      [ header |-> "graph LR", lines |-> << >> ],
      [ header |-> "graph XY", lines |-> << ArrowLine("A", "B", "") >> ],
      NoSrc }

LayoutOf(g) ==
    [ nodes |-> [ i \in 1..Len(g.nodes) |-> g.nodes[i].gridCoord ],
      paths |-> [ k \in 1..Len(g.edges) |-> g.edges[k].path ] ]

Init ==
    /\ FlagsInit
    /\ PathIdle
    /\ MergeIdle
    /\ graph = NewGraph
    /\ ePc = "idle"
    /\ ApiIdle
    /\ DrawIdle

\* mermaidToAscii(src, { useAscii: opt }): opt FALSE is also the omitted option
MermaidToAscii ==
    \E src \in Sources, opt \in BOOLEAN :
        LET ascii == IF opt THEN TRUE ELSE useAscii
            parsed == mermaidFileToMap(src)
            gd == IF parsed.status = "ok" THEN parsed.graphDirection ELSE graphDirection
            r == [ NoResult EXCEPT !.call = "mermaidToAscii", !.src = src,
                                   !.optUseAscii = opt ]
        IN /\ useAscii' = ascii
           /\ graphDirection' = gd
           /\ result' =
                IF parsed.status # "ok"
                THEN [ r EXCEPT !.status = "error", !.error = parsed.error ]
                ELSE The({ The({
                       IF mapped.outcome # "returned"
                       THEN [ r EXCEPT !.status = IF mapped.outcome = "hang"
                                                  THEN "hang" ELSE "error",
                                       !.error = mapped.outcome ]
                       ELSE [ r EXCEPT !.status = "ok", !.canvas = drawn.canvas,
                                       !.layout = LayoutOf(drawn.g) ]
                     : drawn \in { draw(mapped.g, ascii) } })
                     : mapped \in { createMapping(makeGraph(parsed.data), gd) } })
           /\ UNCHANGED <<drawVars, pathVars, edgeVars, mergeVars, props, built>>

\* properties = mermaidFileToMap(src, styleType)
MermaidFileToMap ==
    \E src \in Sources :
        LET parsed == mermaidFileToMap(src)
            r == [ NoResult EXCEPT !.call = "mermaidFileToMap", !.src = src ]
        IN /\ Len(props) < MaxProps
           /\ IF parsed.status = "ok"
              THEN /\ graphDirection' = parsed.graphDirection
                   /\ props' = Append(props, [ src |-> src,
                                               graphDirection |-> parsed.graphDirection,
                                               data |-> parsed.data ])
                   /\ result' = [ r EXCEPT !.status = "ok" ]
              ELSE /\ result' = [ r EXCEPT !.status = "error", !.error = parsed.error ]
                   /\ UNCHANGED <<graphDirection, props>>
           /\ UNCHANGED <<drawVars, useAscii, pathVars, edgeVars, mergeVars, built>>

\* graph = Graph.makeGraph(properties.data)
MakeGraph ==
    \E i \in 1..Len(props) :
        /\ built.phase \in {"none", "drawn", "failed"}
        /\ graph' = makeGraph(props[i].data)
        /\ built' = [ from |-> i, phase |-> "built" ]
        /\ result' = [ NoResult EXCEPT !.call = "makeGraph", !.src = props[i].src,
                                       !.status = "ok" ]
        /\ UNCHANGED <<drawVars, flagVars, pathVars, ePc, mergeVars, props>>

\* graph.createMapping()
CreateMapping ==
    /\ built.phase = "built"
    /\ \E mapped \in { createMapping(graph, graphDirection) } :
       LET r == [ NoResult EXCEPT !.call = "createMapping", !.src = props[built.from].src,
                                  !.phase = built.phase ]
       IN /\ graph' = mapped.g
          /\ built' = [ built EXCEPT !.phase = IF mapped.outcome = "returned"
                                               THEN "mapped" ELSE "failed" ]
          /\ result' = IF mapped.outcome = "returned"
                       THEN [ r EXCEPT !.status = "ok", !.layout = LayoutOf(mapped.g) ]
                       ELSE [ r EXCEPT !.status = IF mapped.outcome = "hang"
                                                  THEN "hang" ELSE "error",
                                       !.error = mapped.outcome ]
    /\ UNCHANGED <<drawVars, flagVars, pathVars, ePc, mergeVars, props>>

\* graph.draw()
Draw ==
    /\ built.phase \in {"built", "mapped"}
    /\ \E drawn \in { draw(graph, useAscii) } :
          /\ graph' = drawn.g
          /\ result' = [ NoResult EXCEPT !.call = "draw", !.src = props[built.from].src,
                                         !.phase = built.phase, !.status = "ok",
                                         !.canvas = drawn.canvas,
                                         !.layout = LayoutOf(drawn.g) ]
    /\ built' = [ built EXCEPT !.phase = "drawn" ]
    /\ UNCHANGED <<drawVars, flagVars, pathVars, ePc, mergeVars, props>>

Next == MermaidToAscii \/ MermaidFileToMap \/ MakeGraph \/ CreateMapping \/ Draw

Spec == Init /\ [][Next]_allVars

----------------------------------------------------------------------------
(* Properties of getPath *)

Neighbours(c) == { GridCoord(c.x + d.x, c.y + d.y) : d \in { Directions[i] : i \in 1..4 } }

\* the cells a search from `from` can pop: from itself and every free cell
\* connected to it by free cells (inside the window)
RECURSIVE FreeClosure(_, _)
FreeClosure(S, g) ==
    LET N == S \cup { n \in UNION { Neighbours(c) : c \in S } :
                        isFreeInGrid(n, g) /\ InWindow(n) }
    IN IF N = S THEN S ELSE FreeClosure(N, g)

\* a sequence of moves leads from `from` to `to`
GoalReachable(from, to, g) ==
    LET R == FreeClosure({from}, g)
    IN to \in R \/ \E c \in R : to \in Neighbours(c)

\* The window is wide enough: the model follows a search beyond the window only
\* when the goal cannot be reached at all.
OutsideOnlyWhenUnreachable ==
    search.status = "outside" => ~GoalReachable(pfFrom, pfTo, pfGrid)

Adjacent(a, b) == abs(a.x - b.x) + abs(a.y - b.y) = 1

Turns(path) ==
    Cardinality({ i \in 2..(Len(path) - 1) :
        determineDirection(path[i - 1], path[i]) # determineDirection(path[i], path[i + 1]) })

\* C7: getPath never returns a partial path: a returned sequence starts at
\* `from` and ends at `to`, and when the queue is empty before `to` was popped
\* the call throws "No path found" and returns nothing.
C7_NoPartialPath ==
    [][ /\ search'.status = "returned" =>
             /\ Len(search'.path) >= 1
             /\ search'.path[1] = pfFrom
             /\ search'.path[Len(search'.path)] = pfTo
        /\ (search.status = "running" /\ Len(search.pq) = 0) =>
             (search'.status = "thrown" /\ search'.path = << >>)
        /\ search'.status = "thrown" => (search.status = "thrown" \/ Len(search.pq) = 0) ]_allVars

\* a path around a node has been returned
C7_Witness ==
    /\ search.status = "returned"
    /\ pfGrid # {}
    /\ Len(search.path) >= 4
    /\ Turns(search.path) >= 2

\* C8: every path search terminates: getPath eventually returns a path or
\* throws the no-path error, whatever the start, the goal and the occupancy map.
C8_Terminates == <>(search.status \in {"returned", "thrown"})

\* C9: on an obstacle-free grid the returned path between two distinct cells
\* has exactly Manhattan-distance many steps, moves between 4-adjacent cells
\* only, and is straight or turns exactly once.
C9_ManhattanPath ==
    (search.status = "returned" /\ pfGrid = {} /\ pfFrom # pfTo) =>
        /\ Len(search.path) - 1 = abs(pfFrom.x - pfTo.x) + abs(pfFrom.y - pfTo.y)
        /\ \A i \in 1..(Len(search.path) - 1) : Adjacent(search.path[i], search.path[i + 1])
        /\ Turns(search.path) <= 1
        /\ (Turns(search.path) = 0 <=> (pfFrom.x = pfTo.x \/ pfFrom.y = pfTo.y))

\* a single-corner path on the empty grid
C9_Witness ==
    /\ search.status = "returned"
    /\ pfGrid = {}
    /\ Turns(search.path) = 1
    /\ Len(search.path) >= 5

----------------------------------------------------------------------------
(* Properties of determinePath *)

\* what the two candidate searches of the edge give
PreferredSearch ==
    LET c == Candidates(graph.edges[1], graph.nodes, graphDirection)
    IN getPath(c.from, c.to, graph.grid)

AlternativeSearch ==
    LET c == Candidates(graph.edges[1], graph.nodes, graphDirection)
    IN getPath(c.altFrom, c.altTo, graph.grid)

\* The window is wide enough for the searches of the edge as well.
EdgeOutsideOnlyWhenUnreachable ==
    ePc # "idle" =>
        LET c == Candidates(graph.edges[1], graph.nodes, graphDirection)
        IN /\ PreferredSearch.status = "outside" => ~GoalReachable(c.from, c.to, graph.grid)
           /\ AlternativeSearch.status = "outside"
                => ~GoalReachable(c.altFrom, c.altTo, graph.grid)

\* C2: if exactly one of the two candidate searches fails to find a path, the
\* edge's path and its start and end directions are those of the candidate
\* that succeeded.
C2_OtherCandidateUsed ==
    ePc = "routed" =>
        LET c == Candidates(graph.edges[1], graph.nodes, graphDirection)
            e == graph.edges[1]
        IN /\ (PreferredSearch.status = "thrown" /\ AlternativeSearch.status = "returned") =>
                 /\ e.path = mergePath(AlternativeSearch.path)
                 /\ e.startDir = c.alternativeDir
                 /\ e.endDir = c.alternativeOppositeDir
           /\ (PreferredSearch.status = "returned" /\ AlternativeSearch.status = "thrown") =>
                 /\ e.path = mergePath(PreferredSearch.path)
                 /\ e.startDir = c.preferredDir
                 /\ e.endDir = c.preferredOppositeDir

\* C3: if both candidate searches of an edge fail, determinePath does not
\* return normally (the failure is propagated and the render is aborted), so
\* no drawing is ever made with that edge missing.
C3_BothFailAborts ==
    (ePc # "idle" /\ PreferredSearch.status = "thrown" /\ AlternativeSearch.status = "thrown")
        => ePc \notin {"routed", "drawn", "not drawn"}

----------------------------------------------------------------------------
(* Properties of mergePath *)

\* C10: mergePath is idempotent, it never increases the number of points and
\* it never changes the first or the last point.
C10_MergeIdempotent ==
    mpPc = "twice" =>
        /\ mpTwice = mpOnce
        /\ Len(mpOnce) <= Len(mpPath)
        /\ Len(mpPath) > 0 =>
             /\ Len(mpOnce) > 0
             /\ mpOnce[1] = mpPath[1]
             /\ mpOnce[Len(mpOnce)] = mpPath[Len(mpPath)]
        /\ Len(mpPath) = 0 => mpOnce = << >>

\* a sequence with a corner, of which mergePath has removed a point
C10_Witness ==
    /\ mpPc = "twice"
    /\ Len(mpOnce) < Len(mpPath)
    /\ Len(mpOnce) >= 3

----------------------------------------------------------------------------
(* Properties of the library calls *)

\* C1: a call of mermaidToAscii with useAscii omitted or false renders with
\* the Unicode glyph set, whatever calls were made before it.
C1_DefaultIsUnicode ==
    (result.call = "mermaidToAscii" /\ result.status = "ok" /\ ~result.optUseAscii)
        => result.canvas.glyphs = "unicode"

\* the layout of the graph made from properties p, under the flow orientation
\* its own diagram source declares
DeclaredLayout(p) == LayoutOf(createMapping(makeGraph(p.data), p.graphDirection).g)

\* C4: a graph is laid out with the flow orientation declared in its own
\* diagram source, also when another diagram was parsed after it.
C4_LayoutAsDeclared ==
    (result.call = "createMapping" /\ result.status = "ok")
        => result.layout = DeclaredLayout(props[built.from])

\* C5: malformed input (a first line that is no orientation header, or a
\* diagram that yields an empty node/edge map) is rejected with an error and
\* no canvas is returned.
C5_MalformedRejected ==
    (result.call = "mermaidToAscii"
       /\ (mermaidFileToMap(result.src).status # "ok"
             \/ mermaidFileToMap(result.src).data = << >>))
        => (result.status = "error" /\ result.canvas = NoCanvas)

\* C6: draw() on a graph whose nodes have no grid position (createMapping has
\* not run) aborts with an error instead of returning a canvas.
C6_DrawBeforeMappingAborts ==
    (result.call = "draw" /\ result.phase = "built" /\ Len(graph.nodes) > 0)
        => result.status = "error"


----------------------------------------------------------------------------
(* drawing.ts: glyphs *)

\* A cell of a canvas holds one character.  The characters of the ASCII glyph
\* set and of texts stand for themselves; a character outside ASCII is written
\* by its Unicode name: Box<strokes> is BOX DRAWINGS LIGHT <strokes> (BoxH
\* HORIZONTAL, BoxV VERTICAL, BoxDR DOWN AND RIGHT, BoxVL VERTICAL AND LEFT,
\* BoxDH DOWN AND HORIZONTAL, BoxVH VERTICAL AND HORIZONTAL, BoxL LEFT, ...),
\* DiagDown and DiagUp the two diagonals, Arrow<dir> the pointing triangles.
Blank == " "

junctionChars ==
    { "BoxH", "BoxV", "BoxDR", "BoxDL", "BoxUR", "BoxUL", "BoxVR", "BoxVL",
      "BoxDH", "BoxUH", "BoxVH", "BoxL", "BoxU", "BoxR", "BoxD" }

isJunctionChar(c) == c \in junctionChars

\* the lookup table of mergeJunctions: junctionMap[c1][c2]
junctionMap ==
    [
      BoxH |-> [ BoxV |-> "BoxVH", BoxDR |-> "BoxDH", BoxDL |-> "BoxDH", BoxUR |-> "BoxUH", BoxUL |-> "BoxUH", BoxVR |-> "BoxVH", BoxVL |-> "BoxVH", BoxDH |-> "BoxDH", BoxUH |-> "BoxUH" ],
      BoxV |-> [ BoxH |-> "BoxVH", BoxDR |-> "BoxVR", BoxDL |-> "BoxVL", BoxUR |-> "BoxVR", BoxUL |-> "BoxVL", BoxVR |-> "BoxVR", BoxVL |-> "BoxVL", BoxDH |-> "BoxVH", BoxUH |-> "BoxVH" ],
      BoxDR |-> [ BoxH |-> "BoxDH", BoxV |-> "BoxVR", BoxDL |-> "BoxDH", BoxUR |-> "BoxVR", BoxUL |-> "BoxVH", BoxVR |-> "BoxVR", BoxVL |-> "BoxVH", BoxDH |-> "BoxDH", BoxUH |-> "BoxVH" ],
      BoxDL |-> [ BoxH |-> "BoxDH", BoxV |-> "BoxVL", BoxDR |-> "BoxDH", BoxUR |-> "BoxVH", BoxUL |-> "BoxVL", BoxVR |-> "BoxVH", BoxVL |-> "BoxVL", BoxDH |-> "BoxDH", BoxUH |-> "BoxVH" ],
      BoxUR |-> [ BoxH |-> "BoxUH", BoxV |-> "BoxVR", BoxDR |-> "BoxVR", BoxDL |-> "BoxVH", BoxUL |-> "BoxUH", BoxVR |-> "BoxVR", BoxVL |-> "BoxVH", BoxDH |-> "BoxVH", BoxUH |-> "BoxUH" ],
      BoxUL |-> [ BoxH |-> "BoxUH", BoxV |-> "BoxVL", BoxDR |-> "BoxVH", BoxDL |-> "BoxVL", BoxUR |-> "BoxUH", BoxVR |-> "BoxVH", BoxVL |-> "BoxVL", BoxDH |-> "BoxVH", BoxUH |-> "BoxUH" ],
      BoxVR |-> [ BoxH |-> "BoxVH", BoxV |-> "BoxVR", BoxDR |-> "BoxVR", BoxDL |-> "BoxVH", BoxUR |-> "BoxVR", BoxUL |-> "BoxVH", BoxVL |-> "BoxVH", BoxDH |-> "BoxVH", BoxUH |-> "BoxVH" ],
      BoxVL |-> [ BoxH |-> "BoxVH", BoxV |-> "BoxVL", BoxDR |-> "BoxVH", BoxDL |-> "BoxVL", BoxUR |-> "BoxVH", BoxUL |-> "BoxVL", BoxVR |-> "BoxVH", BoxDH |-> "BoxVH", BoxUH |-> "BoxVH" ],
      BoxDH |-> [ BoxH |-> "BoxDH", BoxV |-> "BoxVH", BoxDR |-> "BoxDH", BoxDL |-> "BoxDH", BoxUR |-> "BoxVH", BoxUL |-> "BoxVH", BoxVR |-> "BoxVH", BoxVL |-> "BoxVH", BoxUH |-> "BoxVH" ],
      BoxUH |-> [ BoxH |-> "BoxUH", BoxV |-> "BoxVH", BoxDR |-> "BoxVH", BoxDL |-> "BoxVH", BoxUR |-> "BoxUH", BoxUL |-> "BoxUH", BoxVR |-> "BoxVH", BoxVL |-> "BoxVH", BoxDH |-> "BoxVH" ]
    ]

mergeJunctions_overwrite(c1, c2) == c2

\* mergeJunctions(c1, c2): the table entry when there is one, else c1
mergeJunctions(c1, c2) ==
    IF c1 \in DOMAIN junctionMap /\ c2 \in DOMAIN junctionMap[c1]
    THEN junctionMap[c1][c2]
    ELSE c1

----------------------------------------------------------------------------
(* drawing.ts: DrawingEngine and mergeDrawings *)

\* a canvas is the array of its columns, each the array of its cells
Length(a) == Cardinality(DOMAIN a)

makeDrawing(x, y) == [ i \in 0..x |-> [ j \in 0..y |-> Blank ] ]

\* getDrawingSize, as the coordinate of the last cell
getDrawingSize(d) ==
    IF Length(d) = 0 THEN GridCoord(0, 0) ELSE GridCoord(Length(d) - 1, Length(d[0]) - 1)

InCanvas(d, x, y) == x \in DOMAIN d /\ y \in DOMAIN d[x]

\* what the inner loop of mergeDrawings leaves in a cell holding currentChar
\* when the drawing merged has c at that place
mergeCell(currentChar, c, ascii) ==
    IF c = Blank THEN currentChar
    ELSE IF ~ascii /\ isJunctionChar(c) /\ isJunctionChar(currentChar)
         THEN mergeJunctions(currentChar, c)
         ELSE c

\* one turn of the loop over the drawings
mergeOne(merged, mergeCoord, d, ascii) ==
    [ x \in DOMAIN merged |-> [ y \in DOMAIN merged[x] |->
        IF InCanvas(d, x - mergeCoord.x, y - mergeCoord.y)
        THEN mergeCell(merged[x][y], d[x - mergeCoord.x][y - mergeCoord.y], ascii)
        ELSE merged[x][y] ] ]

RECURSIVE mergeAll(_, _, _, _, _)
mergeAll(merged, mergeCoord, drawings, k, ascii) ==
    IF k > Len(drawings) THEN merged
    ELSE mergeAll(mergeOne(merged, mergeCoord, drawings[k], ascii), mergeCoord, drawings, k + 1, ascii)

RECURSIVE MergedSize(_, _, _, _)
MergedSize(size, mergeCoord, drawings, k) ==
    IF k > Len(drawings) THEN size
    ELSE MergedSize(GridCoord(max(size.x, getDrawingSize(drawings[k]).x + mergeCoord.x),
                              max(size.y, getDrawingSize(drawings[k]).y + mergeCoord.y)),
                    mergeCoord, drawings, k + 1)

\* mergeDrawings(baseDrawing, mergeCoord, ...drawings), for a merge coordinate
\* that is not negative; ascii is the useAscii flag it reads
mergeDrawings(baseDrawing, mergeCoord, drawings, ascii) ==
    LET size == The({ MergedSize(getDrawingSize(baseDrawing), mergeCoord, drawings, 1) })
        copy == [ x \in 0..size.x |-> [ y \in 0..size.y |->
                    IF Length(baseDrawing) > 0 /\ x < Length(baseDrawing) /\ y < Length(baseDrawing[0])
                    THEN baseDrawing[x][y] ELSE Blank ] ]
    IN mergeAll(copy, mergeCoord, drawings, 1, ascii)

----------------------------------------------------------------------------
(* JunctionSpec: drawings of one cell merged onto a canvas of one cell *)

\* the characters a cell is drawn with: the junction set, a blank, a letter
CellChars == junctionChars \cup { Blank, "A" }

OneCell(c) == [ i \in 0..0 |-> [ j \in 0..0 |-> c ] ]

JunctionInit ==
    /\ useAscii \in BOOLEAN
    /\ graphDirection = "LR"
    /\ PathIdle
    /\ MergeIdle
    /\ graph = NewGraph
    /\ ePc = "idle"
    /\ ApiIdle
    /\ canvas \in { OneCell(c) : c \in CellChars }
    /\ lastOp = [ op |-> "none" ]
    /\ lay = [ pc |-> "idle" ]
    /\ render = [ pc |-> "idle" ]

\* canvas = mergeDrawings(canvas, new DrawingCoord(0, 0), d)
MergeDrawings ==
    /\ \E c \in CellChars :
         /\ canvas' = mergeDrawings(canvas, GridCoord(0, 0), << OneCell(c) >>, useAscii)
         /\ lastOp' = [ op |-> "mergeDrawings", currentChar |-> canvas[0][0], c |-> c ]
    /\ UNCHANGED <<flagVars, pathVars, edgeVars, mergeVars, apiVars, lay, render>>

JunctionNext == MergeDrawings

JunctionSpec == JunctionInit /\ [][JunctionNext]_allVars

\* the strokes of a junction glyph, from the centre of the cell to its sides
Strokes(c) ==
    CASE c = "BoxH"  -> {"left", "right"}
      [] c = "BoxV"  -> {"up", "down"}
      [] c = "BoxDR" -> {"down", "right"}
      [] c = "BoxDL" -> {"down", "left"}
      [] c = "BoxUR" -> {"up", "right"}
      [] c = "BoxUL" -> {"up", "left"}
      [] c = "BoxVR" -> {"up", "down", "right"}
      [] c = "BoxVL" -> {"up", "down", "left"}
      [] c = "BoxDH" -> {"down", "left", "right"}
      [] c = "BoxUH" -> {"up", "left", "right"}
      [] c = "BoxVH" -> {"up", "down", "left", "right"}
      [] c = "BoxL"  -> {"left"}
      [] c = "BoxU"  -> {"up"}
      [] c = "BoxR"  -> {"right"}
      [] c = "BoxD"  -> {"down"}
      [] OTHER -> {}

\* a Unicode merge of two junction glyphs has just been made
JunctionMerged ==
    /\ lastOp.op = "mergeDrawings"
    /\ ~useAscii
    /\ isJunctionChar(lastOp.currentChar)
    /\ isJunctionChar(lastOp.c)

\* C11: in Unicode mode, when the destination cell and the incoming cell both
\* hold a glyph of the junction set, mergeDrawings leaves in the cell the glyph
\* whose strokes are the union of the strokes of the two, for every ordered
\* pair of the set.
C11_JunctionUnion ==
    JunctionMerged =>
        Strokes(canvas[0][0]) = Strokes(lastOp.currentChar) \cup Strokes(lastOp.c)

\* C12: merging a horizontal line onto a vertical one and a vertical line onto
\* a horizontal one both leave the four-way cross.
C12_CrossEitherOrder ==
    (JunctionMerged /\ {lastOp.currentChar, lastOp.c} = {"BoxH", "BoxV"}) =>
        canvas[0][0] = "BoxVH"

C12_Witness ==
    /\ JunctionMerged
    /\ lastOp.currentChar = "BoxV"
    /\ lastOp.c = "BoxH"
    /\ canvas[0][0] = "BoxVH"


----------------------------------------------------------------------------
(* CanvasSpec: one DrawingEngine under drawText and increaseSize *)

MaxText == 2

increaseSizeCanvas_noCopy(d, x, y) ==
    makeDrawing(max(x, getDrawingSize(d).x), max(y, getDrawingSize(d).y))

\* DrawingEngine.increaseSize on the cells: a blank canvas of the larger size
\* with the old content copied in
increaseSizeCanvas(d, x, y) ==
    [ i \in 0..max(x, getDrawingSize(d).x) |-> [ j \in 0..max(y, getDrawingSize(d).y) |->
        IF InCanvas(d, i, j) THEN d[i][j] ELSE Blank ] ]

\* DrawingEngine.drawText, for a start that is not negative (a negative one
\* indexes a column that does not exist)
drawText(d, start, text) ==
    LET grown == increaseSizeCanvas(d, start.x + Len(text), start.y)
    IN [ i \in DOMAIN grown |-> [ j \in DOMAIN grown[i] |->
           IF j = start.y /\ i - start.x \in 0..(Len(text) - 1)
           THEN text[i - start.x + 1]
           ELSE grown[i][j] ] ]

RECURSIVE TextsOfLen(_)
TextsOfLen(n) ==
    IF n = 0 THEN { << >> }
    ELSE { Append(t, c) : t \in TextsOfLen(n - 1), c \in {"a", "b"} }

\* the texts drawn, the places they are drawn at, the sizes asked for and the
\* arguments of the constructor
Texts == UNION { TextsOfLen(n) : n \in 0..MaxText }

TextStarts == { GridCoord(0, 0), GridCoord(1, 1) }

GrowTo == { GridCoord(0, 0), GridCoord(3, 0), GridCoord(1, 2) }

NewSizes == { GridCoord(0, 0), GridCoord(1, 1) }

CanvasInit ==
    /\ FlagsInit
    /\ PathIdle
    /\ MergeIdle
    /\ graph = NewGraph
    /\ ePc = "idle"
    /\ ApiIdle
    /\ canvas \in { makeDrawing(n.x, n.y) : n \in NewSizes }
    /\ lastOp = [ op |-> "new" ]
    /\ lay = [ pc |-> "idle" ]
    /\ render = [ pc |-> "idle" ]

\* canvas.drawText(start, text)
DrawText ==
    /\ \E start \in TextStarts, text \in Texts :
         /\ canvas' = drawText(canvas, start, text)
         /\ lastOp' = [ op |-> "drawText", start |-> start, text |-> text ]
    /\ UNCHANGED <<flagVars, pathVars, edgeVars, mergeVars, apiVars, lay, render>>

\* canvas.increaseSize(x, y)
IncreaseSize ==
    /\ \E to \in GrowTo :
         /\ canvas' = increaseSizeCanvas(canvas, to.x, to.y)
         /\ lastOp' = [ op |-> "increaseSize", x |-> to.x, y |-> to.y ]
    /\ UNCHANGED <<flagVars, pathVars, edgeVars, mergeVars, apiVars, lay, render>>

CanvasNext == DrawText \/ IncreaseSize

CanvasSpec == CanvasInit /\ [][CanvasNext]_allVars

\* the call just made writes the character ch at (x, y)
Writes(op, x, y, ch) ==
    /\ op.op = "drawText"
    /\ y = op.start.y
    /\ x - op.start.x \in 0..(Len(op.text) - 1)
    /\ ch = op.text[x - op.start.x + 1]

WritesAt(op, x, y) == \E ch \in {"a", "b"} : Writes(op, x, y, ch)

\* C17: a drawText or increaseSize call never makes the canvas smaller; after
\* it every cell the call wrote holds the character written (drawText(origin, t)
\* puts t[i] at (origin.x + i, origin.y), inside the canvas), every other cell
\* of the old canvas holds what it held, and every new cell not written is
\* blank.
C17_CanvasKeepsWrites ==
    [][ /\ getDrawingSize(canvas').x >= getDrawingSize(canvas).x
        /\ getDrawingSize(canvas').y >= getDrawingSize(canvas).y
        /\ lastOp'.op = "drawText" =>
             \A i \in 1..Len(lastOp'.text) :
                /\ InCanvas(canvas', lastOp'.start.x + i - 1, lastOp'.start.y)
                /\ canvas'[lastOp'.start.x + i - 1][lastOp'.start.y] = lastOp'.text[i]
        /\ \A x \in DOMAIN canvas' : \A y \in DOMAIN canvas'[x] :
             ~WritesAt(lastOp', x, y) =>
                canvas'[x][y] = IF InCanvas(canvas, x, y) THEN canvas[x][y] ELSE Blank
      ]_allVars

\* a text was overwritten by a later one and the canvas then grew
C17_Witness ==
    /\ lastOp.op = "increaseSize"
    /\ getDrawingSize(canvas) = GridCoord(3, 2)
    /\ canvas[0][0] = "b"
    /\ canvas[1][0] = "a"
    /\ canvas[2][1] = "b"
    /\ canvas[3][2] = Blank


----------------------------------------------------------------------------
(* DirectionSpec: a side of a node's block and its opposite *)

AllDirections ==
    { Up, Down, Left, Right, UpperRight, UpperLeft, LowerRight, LowerLeft, Middle }

\* gridCoord.direction(dir): the cell of the block of a node at c on side dir
DirectionInit ==
    /\ FlagsInit
    /\ PathIdle
    /\ MergeIdle
    /\ graph = NewGraph
    /\ ePc = "idle"
    /\ ApiIdle
    /\ canvas = << >>
    /\ \E c \in Cells, dir \in AllDirections :
         lastOp = [ op |-> "direction", c |-> c, of |-> dir, dir |-> dir, at |-> direction(c, dir) ]
    /\ lay = [ pc |-> "idle" ]
    /\ render = [ pc |-> "idle" ]

\* dir = dir.getOpposite(), and the cell of the block on that side
GetOpposite ==
    /\ lastOp.op \in {"direction", "getOpposite"}
    /\ \E opp \in { getOpposite(lastOp.dir) } :
         lastOp' = [ op |-> "getOpposite", c |-> lastOp.c, of |-> lastOp.dir, dir |-> opp,
                     at |-> direction(lastOp.c, opp) ]
    /\ UNCHANGED <<flagVars, pathVars, edgeVars, mergeVars, apiVars, canvas, lay, render>>

DirectionNext == GetOpposite

DirectionSpec == DirectionInit /\ [][DirectionNext]_allVars

\* C18: getOpposite applied twice gives back the direction it started from,
\* for each of the eight directions, and the opposite of Middle is Middle.
C18_OppositeInvolution ==
    [][ /\ (lastOp.op = "getOpposite" /\ lastOp'.op = "getOpposite") => lastOp'.dir = lastOp.of
        /\ (lastOp'.op = "getOpposite" /\ lastOp'.of = Middle) => lastOp'.dir = Middle
      ]_allVars

\* getOpposite applied to a diagonal, with the cell on that side of the block
C18_Witness ==
    /\ lastOp.op = "getOpposite"
    /\ lastOp.of = LowerLeft
    /\ lastOp.dir = UpperRight
    /\ lastOp.at = direction(lastOp.c, UpperRight)


----------------------------------------------------------------------------
(* Properties of a routed path *)

\* the grid cells of the straight segment between two consecutive path points
Segment(a, b) ==
    { GridCoord(x, y) : x \in min(a.x, b.x)..max(a.x, b.x), y \in min(a.y, b.y)..max(a.y, b.y) }

\* the grid cells on the segments of a path
SegmentCells(path) ==
    { path[i] : i \in 1..Len(path) }
      \cup UNION { Segment(path[i], path[i + 1]) : i \in 1..(Len(path) - 1) }

\* the cells of a path between its two ends
Between(path) ==
    IF Len(path) = 0 THEN {} ELSE SegmentCells(path) \ { path[1], path[Len(path)] }

\* C19: every grid cell on the segments of a routed path, other than the
\* path's first and last cell, has coordinates that are not negative and lies
\* outside the reserved 3x3 block of every node.
C19_PathAvoidsNodes ==
    ePc = "routed" =>
        \A c \in Between(graph.edges[1].path) :
            c.x >= 0 /\ c.y >= 0 /\ c \notin graph.grid

\* a path routed around the block of a third node
C19_Witness ==
    /\ ePc = "routed"
    /\ Len(graph.edges[1].path) >= 4
    /\ Cardinality(Between(graph.edges[1].path)) >= 4
    /\ graph.nodes[1].gridCoord # graph.nodes[2].gridCoord
    /\ graph.grid # Blocks({graph.nodes[1].gridCoord, graph.nodes[2].gridCoord})


----------------------------------------------------------------------------
(* drawing.ts: boxes, lines and the fragments of an edge, cell by cell *)

ceilDiv(x, y) == IF x % y = 0 THEN x \div y ELSE (x \div y) + 1

\* the characters of a text, text[0], text[1], ...: of a name of one
\* character and of the label "yes"
CharsOf(text) ==
    CASE text = "" -> << >>
      [] text = "yes" -> << "y", "e", "s" >>
      [] OTHER -> << text >>

\* canvas[x][y] = ch, for a cell of the canvas
SetCell(d, x, y, ch) == IF InCanvas(d, x, y) THEN [ d EXCEPT ![x][y] = ch ] ELSE d

\* drawBox for a node that has a grid coordinate: size is (w, h), the sums of
\* the two column widths and of the two row heights
drawBox(name, size, ascii) ==
    LET w == size.x
        h == size.y
        chars == CharsOf(name)
        textY == h \div 2
        textX == (w \div 2) - ceilDiv(Len(chars), 2) + 1
        horizontal == IF ascii THEN "-" ELSE "BoxH"
        vertical == IF ascii THEN "|" ELSE "BoxV"
    IN [ x \in 0..w |-> [ y \in 0..h |->
           IF y = textY /\ (x - textX) \in 0..(Len(chars) - 1) THEN chars[x - textX + 1]
           ELSE IF x = w /\ y = h THEN (IF ascii THEN "+" ELSE "BoxUL")
           ELSE IF x = 0 /\ y = h THEN (IF ascii THEN "+" ELSE "BoxUR")
           ELSE IF x = w /\ y = 0 THEN (IF ascii THEN "+" ELSE "BoxDL")
           ELSE IF x = 0 /\ y = 0 THEN (IF ascii THEN "+" ELSE "BoxDR")
           ELSE IF (x = 0 \/ x = w) /\ 0 < y /\ y < h THEN vertical
           ELSE IF (y = 0 \/ y = h) /\ 0 < x /\ x < w THEN horizontal
           ELSE Blank ] ]

\* the loops of drawUnicodeLine and drawAsciiLine: from (x, y) in steps of
\* (dx, dy) while the bound of the direction holds
RECURSIVE Walk(_, _, _, _, _, _)
Walk(x, y, dx, dy, to, offsetTo) ==
    IF /\ (dx = 0 \/ dx * x <= dx * to.x + offsetTo)
       /\ (dy = 0 \/ dy * y <= dy * to.y + offsetTo)
    THEN << GridCoord(x, y) >> \o Walk(x + dx, y + dy, dx, dy, to, offsetTo)
    ELSE << >>

\* drawnCoords of drawLine
LineCoords(from, to, offsetFrom, offsetTo) ==
    LET dir == determineDirection(from, to)
        dx == dir.x - 1
        dy == dir.y - 1
    IN Walk(from.x + (IF dy = 0 THEN dx * offsetFrom ELSE 0), from.y + dy * offsetFrom,
            dx, dy, to, offsetTo)

\* the character a line of a direction is drawn with
LineChar(dir, ascii) ==
    IF dir \in {Up, Down} THEN (IF ascii THEN "|" ELSE "BoxV")
    ELSE IF dir \in {Left, Right} THEN (IF ascii THEN "-" ELSE "BoxH")
    ELSE IF dir \in {UpperLeft, LowerRight} THEN (IF ascii THEN "\\" ELSE "DiagDown")
    ELSE (IF ascii THEN "/" ELSE "DiagUp")

\* DrawingEngine.drawLine: the canvas it leaves and the coordinates it returns
drawLine(d, from, to, offsetFrom, offsetTo, ascii) ==
    LET coords == The({ LineCoords(from, to, offsetFrom, offsetTo) })
        ch == LineChar(determineDirection(from, to), ascii)
        grown == increaseSizeCanvas(d, max(from.x, to.x), max(from.y, to.y))
    IN [ d |-> [ x \in DOMAIN grown |-> [ y \in DOMAIN grown[x] |->
                   IF GridCoord(x, y) \in Range(coords) THEN ch ELSE grown[x][y] ] ],
         coords |-> coords ]

\* new DrawingEngine() grown to the size of the base drawing
BlankLike(size) == increaseSizeCanvas(makeDrawing(0, 0), size.x, size.y)

\* the loop of drawPath from idx on (idx counts from 1 here)
RECURSIVE drawPathLoop(_, _, _, _, _, _, _)
drawPathLoop(g, path, idx, previousCoord, d, linesDrawn, ascii) ==
    IF idx > Len(path) THEN [ d |-> d, linesDrawn |-> linesDrawn ]
    ELSE LET previousDrawingCoord == gridToDrawingCoord(g, previousCoord)
             nextDrawingCoord == gridToDrawingCoord(g, path[idx])
         IN IF previousDrawingCoord = nextDrawingCoord
            THEN drawPathLoop(g, path, idx + 1, previousCoord, d, linesDrawn, ascii)
            ELSE The({ drawPathLoop(g, path, idx + 1, path[idx], l.d,
                                    Append(linesDrawn, l.coords), ascii)
                       : l \in { drawLine(d, previousDrawingCoord, nextDrawingCoord, 1, -1, ascii) } })

\* drawPath
drawPath(g, path, size, ascii) ==
    drawPathLoop(g, path, 2, path[1], BlankLike(size), << >>, ascii)

\* drawBoxStart; firstLine is the coordinates of linesDrawn[0], empty when
\* there is none
drawBoxStart(path, firstLine, size, ascii) ==
    LET d == BlankLike(size)
        from == firstLine[1]
        dir == determineDirection(path[1], path[2])
    IN IF Len(firstLine) = 0 \/ Len(path) < 2 \/ ascii THEN d
       ELSE IF dir = Up THEN SetCell(d, from.x, from.y + 1, "BoxUH")
       ELSE IF dir = Down THEN SetCell(d, from.x, from.y - 1, "BoxDH")
       ELSE IF dir = Left THEN SetCell(d, from.x + 1, from.y, "BoxVL")
       ELSE IF dir = Right THEN SetCell(d, from.x - 1, from.y, "BoxVR")
       ELSE d

\* the character of an arrow head
ArrowChar(dir, ascii) ==
    IF ascii
    THEN CASE dir = Up -> "^" [] dir = Down -> "v" [] dir = Left -> "<" [] dir = Right -> ">"
           [] OTHER -> "*"
    ELSE CASE dir = Up -> "ArrowUp" [] dir = Down -> "ArrowDown"
           [] dir = Left -> "ArrowLeft" [] dir = Right -> "ArrowRight"
           [] dir = UpperRight -> "ArrowUpperRight" [] dir = UpperLeft -> "ArrowUpperLeft"
           [] dir = LowerRight -> "ArrowLowerRight" [] dir = LowerLeft -> "ArrowLowerLeft"
           [] OTHER -> "Dot"

\* the direction of a line of a single coordinate, for every line
ArrowDir_first(line) == determineDirection(line[1], line[1])

\* the direction drawArrowHead takes for a line: Up when the line has a
\* single coordinate
ArrowDir(line) ==
    IF Len(line) >= 2 THEN determineDirection(line[1], line[Len(line)]) ELSE Up

\* drawArrowHead; line is the coordinates of the last line drawn, empty when
\* there is none
drawArrowHead(line, size, ascii) ==
    LET d == BlankLike(size)
        lastPos == line[Len(line)]
    IN IF Len(line) < 1 THEN d
       ELSE SetCell(increaseSizeCanvas(d, lastPos.x, lastPos.y), lastPos.x, lastPos.y,
                    ArrowChar(ArrowDir(line), ascii))

\* the character of a corner between two directions
CornerChar(prevDir, nextDir, ascii) ==
    IF ascii THEN "+"
    ELSE IF (prevDir = Right /\ nextDir = Down) \/ (prevDir = Up /\ nextDir = Left) THEN "BoxDL"
    ELSE IF (prevDir = Right /\ nextDir = Up) \/ (prevDir = Down /\ nextDir = Left) THEN "BoxUL"
    ELSE IF (prevDir = Left /\ nextDir = Down) \/ (prevDir = Up /\ nextDir = Right) THEN "BoxDR"
    ELSE IF (prevDir = Left /\ nextDir = Up) \/ (prevDir = Down /\ nextDir = Right) THEN "BoxUR"
    ELSE "+"

\* the loop of drawCorners from idx on (idx counts from 1 here)
RECURSIVE drawCornersLoop(_, _, _, _, _)
drawCornersLoop(g, path, idx, d, ascii) ==
    IF idx > Len(path) - 1 THEN d
    ELSE LET dc == gridToDrawingCoord(g, path[idx])
             corner == CornerChar(determineDirection(path[idx - 1], path[idx]),
                                  determineDirection(path[idx], path[idx + 1]), ascii)
         IN The({ drawCornersLoop(g, path, idx + 1, d1, ascii)
                  : d1 \in { SetCell(increaseSizeCanvas(d, dc.x, dc.y), dc.x, dc.y, corner) } })

drawCorners(g, path, size, ascii) == drawCornersLoop(g, path, 2, BlankLike(size), ascii)

\* where drawTextOnLine starts the label
LabelStart(line, label) ==
    LET minX == min(line[1].x, line[2].x)
        maxX == max(line[1].x, line[2].x)
        minY == min(line[1].y, line[2].y)
        maxY == max(line[1].y, line[2].y)
    IN GridCoord(minX + ((maxX - minX) \div 2) - (Len(label) \div 2),
                 minY + ((maxY - minY) \div 2))

\* drawArrowLabel, for a label that does not start left of the canvas
drawArrowLabel(g, e, size) ==
    LET d == BlankLike(size)
        line == [ i \in 1..Len(e.labelLine) |-> gridToDrawingCoord(g, e.labelLine[i]) ]
    IN IF Len(e.text) = 0 \/ Len(e.labelLine) < 2 THEN d
       ELSE drawText(d, LabelStart(line, e.text), CharsOf(e.text))

EmptyDrawing == makeDrawing(0, 0)

\* GraphImpl.drawEdge and drawEdge of drawing.ts: the five fragments
drawEdge(g, e, size, ascii) ==
    IF drawEdgeIsEmpty(e, g.nodes)
    THEN [ line |-> EmptyDrawing, boxStart |-> EmptyDrawing, arrowHead |-> EmptyDrawing,
           corners |-> EmptyDrawing, label |-> EmptyDrawing, linesDrawn |-> << >> ]
    ELSE The({ [ line |-> dPath.d,
                 boxStart |-> drawBoxStart(e.path, IF Len(dPath.linesDrawn) = 0 THEN << >>
                                                   ELSE dPath.linesDrawn[1], size, ascii),
                 arrowHead |-> drawArrowHead(IF Len(dPath.linesDrawn) = 0 THEN << >>
                                             ELSE dPath.linesDrawn[Len(dPath.linesDrawn)],
                                             size, ascii),
                 corners |-> drawCorners(g, e.path, size, ascii),
                 label |-> drawArrowLabel(g, e, size),
                 linesDrawn |-> dPath.linesDrawn ]
               : dPath \in { drawPath(g, e.path, size, ascii) } })

----------------------------------------------------------------------------
(* GraphImpl.draw, cell by cell *)

\* the loop over the nodes: drawNode merges the box of each node to draw
RECURSIVE drawNodes(_, _, _, _)
drawNodes(g, i, d, ascii) ==
    IF i > Len(g.nodes) THEN d
    ELSE IF ~drawNodeDraws(g.nodes[i]) THEN drawNodes(g, i + 1, d, ascii)
    ELSE The({ drawNodes(g, i + 1, d1, ascii)
               : d1 \in { mergeDrawings(d, g.nodes[i].drawingCoord,
                                        << drawBox(g.nodes[i].name, g.nodes[i].drawing, ascii) >>,
                                        ascii) } })

\* draw() with the arrowheads merged first and the lines last
drawCanvas_headsFirst(g, ascii) ==
    The({ The({ The({ The({ The({ The({
        [ canvas |-> mergeDrawings(d4, GridCoord(0, 0),
                                   [ k \in 1..Len(frags) |-> frags[k].line ], ascii),
          frags |-> frags, boxes |-> d0 ]
      : d4 \in { mergeDrawings(d3, GridCoord(0, 0),
                               [ k \in 1..Len(frags) |-> frags[k].label ], ascii) } })
      : d3 \in { mergeDrawings(d2, GridCoord(0, 0),
                               [ k \in 1..Len(frags) |-> frags[k].boxStart ], ascii) } })
      : d2 \in { mergeDrawings(d1, GridCoord(0, 0),
                               [ k \in 1..Len(frags) |-> frags[k].corners ], ascii) } })
      : d1 \in { mergeDrawings(d0, GridCoord(0, 0),
                               [ k \in 1..Len(frags) |-> frags[k].arrowHead ], ascii) } })
      : frags \in { [ k \in 1..Len(g.edges) |->
                        drawEdge(g, g.edges[k], getDrawingSize(d0), ascii) ] } })
      : d0 \in { drawNodes(g, 1, makeDrawing(g.drawing.x, g.drawing.y), ascii) } })

\* draw() for a graph createMapping has returned from: the canvas returned,
\* the fragments of the edges and the canvas with the boxes of the nodes only
drawCanvas(g, ascii) ==
    The({ The({ The({ The({ The({ The({
        [ canvas |-> mergeDrawings(d4, GridCoord(0, 0),
                                   [ k \in 1..Len(frags) |-> frags[k].label ], ascii),
          frags |-> frags, boxes |-> d0 ]
      : d4 \in { mergeDrawings(d3, GridCoord(0, 0),
                               [ k \in 1..Len(frags) |-> frags[k].boxStart ], ascii) } })
      : d3 \in { mergeDrawings(d2, GridCoord(0, 0),
                               [ k \in 1..Len(frags) |-> frags[k].arrowHead ], ascii) } })
      : d2 \in { mergeDrawings(d1, GridCoord(0, 0),
                               [ k \in 1..Len(frags) |-> frags[k].corners ], ascii) } })
      : d1 \in { mergeDrawings(d0, GridCoord(0, 0),
                               [ k \in 1..Len(frags) |-> frags[k].line ], ascii) } })
      : frags \in { [ k \in 1..Len(g.edges) |->
                        drawEdge(g, g.edges[k], getDrawingSize(d0), ascii) ] } })
      : d0 \in { drawNodes(g, 1, makeDrawing(g.drawing.x, g.drawing.y), ascii) } })

----------------------------------------------------------------------------
(* RenderSpec: one diagram source rendered by mermaidToAscii, without and *)
(* with the useAscii option                                                *)

\* Largest number of arrow lines of a source.
MaxEdges == 2

\* the arrow lines of the sources: arrows among three nodes, two of them
\* also with a label
RenderLines ==
    { ArrowLine("A", "B", ""), ArrowLine("A", "C", ""), ArrowLine("B", "C", ""),
      ArrowLine("B", "A", ""), ArrowLine("A", "A", ""), ArrowLine("B", "B", ""),
      ArrowLine("A", "B", "yes"), ArrowLine("A", "A", "yes") }

RECURSIVE LinesOfLen(_)
LinesOfLen(n) ==
    IF n = 0 THEN { << >> }
    ELSE { Append(ls, l) : ls \in LinesOfLen(n - 1), l \in RenderLines }

RenderSources ==
    { [ header |-> h, lines |-> ls ] :
        h \in {"graph LR", "graph TD"}, ls \in UNION { LinesOfLen(n) : n \in 1..MaxEdges } }

NoRender == [ status |-> "none", canvas |-> << >>, frags |-> << >>, boxes |-> << >> ]

RenderInit ==
    /\ FlagsInit
    /\ PathIdle
    /\ MergeIdle
    /\ graph = NewGraph
    /\ ePc = "idle"
    /\ ApiIdle
    /\ canvas = << >>
    /\ lastOp = [ op |-> "none" ]
    /\ lay \in { [ pc |-> "source", src |-> src, outcome |-> "", g |-> NewGraph ]
                 : src \in RenderSources }
    /\ render = [ pc |-> "none", unicode |-> NoRender, ascii |-> NoRender ]

\* mermaidToAscii(src, { useAscii: opt }) on the source held: the graph it
\* lays out and the canvas it returns; each glyph set is rendered once
RenderDiagram ==
    /\ lay.pc \in {"source", "rendered"}
    /\ \E opt \in BOOLEAN :
         \E ascii \in { opt \/ useAscii } :
           /\ (IF ascii THEN render.ascii ELSE render.unicode) = NoRender
           /\ useAscii' = ascii
           /\ \E parsed \in { mermaidFileToMap(lay.src) } :
                /\ parsed.status = "ok"
                /\ graphDirection' = parsed.graphDirection
                /\ \E mapped \in { createMapping(makeGraph(parsed.data), parsed.graphDirection) } :
                     /\ lay' = [ lay EXCEPT !.pc = "rendered", !.outcome = mapped.outcome,
                                            !.g = mapped.g ]
                     /\ \E r \in { IF mapped.outcome # "returned"
                                   THEN [ NoRender EXCEPT !.status = mapped.outcome ]
                                   ELSE The({ [ status |-> "ok", canvas |-> drawn.canvas,
                                                frags |-> drawn.frags, boxes |-> drawn.boxes ]
                                              : drawn \in { drawCanvas(mapped.g, ascii) } }) } :
                          render' = IF ascii
                                    THEN [ render EXCEPT !.pc = "drawn", !.ascii = r ]
                                    ELSE [ render EXCEPT !.pc = "drawn", !.unicode = r ]
    /\ UNCHANGED <<pathVars, edgeVars, mergeVars, apiVars, canvas, lastOp>>

RenderNext == RenderDiagram

RenderSpec == RenderInit /\ [][RenderNext]_allVars

\* every search of the layouts made stays inside the tracked window
RenderSearchesEnd == lay.pc = "rendered" => lay.outcome = "returned"


----------------------------------------------------------------------------
(* Properties of the renders *)

CellsOf(d) == { <<x, y>> : x \in DOMAIN d, y \in DOMAIN d[0] }

BothRendered == render.unicode.status = "ok" /\ render.ascii.status = "ok"

\* C13: the ASCII and the Unicode render of a graph have the same width and
\* height, a cell is blank in one exactly when it is blank in the other, and
\* the ASCII render holds none of the 15 junction glyphs.
C13_SameShape ==
    BothRendered =>
        /\ getDrawingSize(render.unicode.canvas) = getDrawingSize(render.ascii.canvas)
        /\ \A c \in CellsOf(render.unicode.canvas) :
             (render.unicode.canvas[c[1]][c[2]] = Blank) <=> (render.ascii.canvas[c[1]][c[2]] = Blank)
        /\ \A c \in CellsOf(render.ascii.canvas) :
             ~isJunctionChar(render.ascii.canvas[c[1]][c[2]])

\* the renders made, with the glyph set of each
Renders ==
    { r \in { [ ascii |-> FALSE, canvas |-> render.unicode.canvas, frags |-> render.unicode.frags,
                boxes |-> render.unicode.boxes, status |-> render.unicode.status ],
              [ ascii |-> TRUE, canvas |-> render.ascii.canvas, frags |-> render.ascii.frags,
                boxes |-> render.ascii.boxes, status |-> render.ascii.status ] } : r.status = "ok" }

\* the cells of the box of node n: its corners, and all it covers
BoxCorners(n) ==
    { <<n.drawingCoord.x + dx, n.drawingCoord.y + dy>> : dx \in {0, n.drawing.x}, dy \in {0, n.drawing.y} }

BoxArea(n) ==
    { <<n.drawingCoord.x + dx, n.drawingCoord.y + dy>> : dx \in 0..n.drawing.x, dy \in 0..n.drawing.y }

CornerGlyphs(ascii) == IF ascii THEN {"+"} ELSE {"BoxDR", "BoxDL", "BoxUR", "BoxUL"}

IsSourceAB == lay.src = [ header |-> "graph LR", lines |-> << ArrowLine("A", "B", "") >> ]

\* C14: the render of the left-right graph of A, B and one unlabeled edge
\* A->B has exactly two boxes; between them one straight horizontal connector
\* on a single row, without a corner glyph, that ends in a right-pointing
\* arrowhead in the cell immediately left of B's left border; nothing else
\* is drawn outside the boxes.
C14_TwoBoxesOneArrow ==
    (IsSourceAB /\ lay.pc = "rendered") =>
        \A r \in Renders :
            LET a == lay.g.nodes[1]
                b == lay.g.nodes[2]
                d == r.canvas
                row == a.drawingCoord.y + (a.drawing.y \div 2)
                gapFrom == a.drawingCoord.x + a.drawing.x + 1
                gapTo == b.drawingCoord.x - 1
            IN /\ Len(lay.g.nodes) = 2
               /\ BoxArea(a) \cap BoxArea(b) = {}
               /\ { c \in CellsOf(d) : d[c[1]][c[2]] \in CornerGlyphs(r.ascii) }
                    = BoxCorners(a) \cup BoxCorners(b)
               /\ { c \in CellsOf(d) : d[c[1]][c[2]] \in {"A", "B"} }
                    = { <<a.drawingCoord.x + 2, row>>, <<b.drawingCoord.x + 2, row>> }
               /\ gapFrom < gapTo
               /\ \A c \in CellsOf(d) \ (BoxArea(a) \cup BoxArea(b)) :
                    d[c[1]][c[2]] =
                        IF c[2] = row /\ c[1] = gapTo THEN (IF r.ascii THEN ">" ELSE "ArrowRight")
                        ELSE IF c[2] = row /\ c[1] \in gapFrom..gapTo
                        THEN (IF r.ascii THEN "-" ELSE "BoxH")
                        ELSE Blank

C14_Witness ==
    /\ IsSourceAB
    /\ BothRendered
    /\ render.unicode.canvas[9][2] = "ArrowRight"
    /\ render.ascii.canvas[9][2] = ">"
    /\ render.unicode.canvas[10][2] = "BoxV"

\* the position in g.nodes of the node of a name
NodeOf(name) == getNode(lay.g, name)

\* a left-right source whose two lines are unlabeled arrows from A to two
\* other nodes
IsFanOut ==
    /\ lay.src.header = "graph LR"
    /\ Len(lay.src.lines) = 2
    /\ \A i \in 1..2 : lay.src.lines[i].parent = "A" /\ lay.src.lines[i].child # "A"
                       /\ lay.src.lines[i].label = ""
    /\ lay.src.lines[1].child # lay.src.lines[2].child

\* C15: in a left-right fan-out from A to B and C, B and C are placed in
\* the grid column of A plus 4, in different rows, and the routed paths of the
\* two edges have no grid cell in common.
C15_FanOut ==
    (IsFanOut /\ lay.pc = "rendered") =>
        LET a == lay.g.nodes[NodeOf("A")].gridCoord
            b == lay.g.nodes[NodeOf(lay.src.lines[1].child)].gridCoord
            c == lay.g.nodes[NodeOf(lay.src.lines[2].child)].gridCoord
        IN /\ b.x = a.x + 4
           /\ c.x = a.x + 4
           /\ b.y # c.y
           /\ Len(lay.g.edges) = 2
           /\ Len(lay.g.edges[1].path) >= 2
           /\ Len(lay.g.edges[2].path) >= 2
           /\ SegmentCells(lay.g.edges[1].path) \cap SegmentCells(lay.g.edges[2].path) = {}

C15_Witness ==
    /\ IsFanOut
    /\ lay.pc = "rendered"
    /\ lay.g.nodes[NodeOf("B")].gridCoord = GridCoord(4, 0)
    /\ lay.g.nodes[NodeOf("C")].gridCoord = GridCoord(4, 4)
    /\ Len(lay.g.edges[2].path) = 3

\* the edges of the graph laid out that go from a node to itself
SelfEdges == { k \in 1..Len(lay.g.edges) : lay.g.edges[k].from = lay.g.edges[k].to }

\* C16: the routed path of a self-referential edge has at least one cell;
\* it starts on the side of the node's block given by the orientation (LR:
\* Right, TD: Down) and ends on the adjacent side (LR: Down, TD: Right); the
\* arrowhead drawn for it is the upward glyph whenever the last line drawn
\* has a single cell.
C16_SelfReference ==
    lay.pc = "rendered" =>
        \A k \in SelfEdges :
            LET e == lay.g.edges[k]
                c == lay.g.nodes[e.from].gridCoord
                exit == IF graphDirection = "LR" THEN Right ELSE Down
                enter == IF graphDirection = "LR" THEN Down ELSE Right
            IN /\ Len(e.path) >= 1
               /\ e.startDir = exit
               /\ e.endDir = enter
               /\ e.path[1] = direction(c, exit)
               /\ e.path[Len(e.path)] = direction(c, enter)
               /\ \A r \in Renders :
                    LET lines == r.frags[k].linesDrawn
                        last == lines[Len(lines)]
                    IN (Len(lines) >= 1 /\ Len(last) = 1) =>
                          r.frags[k].arrowHead[last[1].x][last[1].y]
                              = (IF r.ascii THEN "^" ELSE "ArrowUp")

\* a top-down self-reference: its last line runs to the left, has a single
\* cell, and the arrowhead on it points up
C16_Witness ==
    /\ lay.pc = "rendered"
    /\ graphDirection = "TD"
    /\ render.unicode.status = "ok"
    /\ \E k \in SelfEdges :
         LET lines == render.unicode.frags[k].linesDrawn
             last == lines[Len(lines)]
         IN /\ Len(lay.g.edges[k].path) = 5
            /\ Len(lines) = 4
            /\ Len(last) = 1
            /\ render.unicode.frags[k].arrowHead[last[1].x][last[1].y] = "ArrowUp"
            /\ render.unicode.canvas[last[1].x][last[1].y] = "ArrowUp"

\* the nodes of the graph laid out that have a grid coordinate
Placed == { i \in 1..Len(lay.g.nodes) : Has(lay.g.nodes[i].gridCoord) }

----------------------------------------------------------------------------
(* Properties of getPath among obstacles *)

\* the cells a move from one of the cells of S leads to: a neighbour that is
\* free, or the goal itself
Moves(S, to, g) ==
    { n \in UNION { Neighbours(c) : c \in S } : (isFreeInGrid(n, g) \/ n = to) /\ InWindow(n) }

\* the least number of moves from the cells of `frontier`, d moves away from
\* the start, to the goal; -1 when no sequence of moves leads there
RECURSIVE StepsFrom(_, _, _, _, _)
StepsFrom(frontier, seen, d, to, g) ==
    IF to \in frontier THEN d
    ELSE IF frontier = {} THEN -1
    ELSE StepsFrom(Moves(frontier, to, g) \ seen, seen \cup Moves(frontier, to, g), d + 1, to, g)

LeastSteps(from, to, g) == StepsFrom({from}, {from}, 0, to, g)

\* C23: with obstacles on the grid, a path getPath returns has the least
\* number of steps any path from start to goal through free cells has.
C23_ShortestAmongObstacles ==
    (search.status = "returned" /\ pfGrid # {}) =>
        /\ Len(search.path) - 1 = LeastSteps(pfFrom, pfTo, pfGrid)
        /\ \A i \in 1..(Len(search.path) - 1) : Adjacent(search.path[i], search.path[i + 1])
        /\ \A i \in 2..Len(search.path) :
             isFreeInGrid(search.path[i], pfGrid) \/ search.path[i] = pfTo

\* a returned path that a node on the straight way has made longer than the
\* Manhattan distance, where the heuristic ranked a cell above its real cost
C23_Witness ==
    /\ search.status = "returned"
    /\ pfGrid # {}
    /\ Len(search.path) - 1 > abs(pfFrom.x - pfTo.x) + abs(pfFrom.y - pfTo.y)
    /\ pfFrom.x # pfTo.x
    /\ pfFrom.y # pfTo.y

----------------------------------------------------------------------------
(* Properties of the corners and of the order of the fragments *)

\* the stroke of a glyph that points the way of a direction
StrokeOf(dir) ==
    CASE dir = Up -> "up" [] dir = Down -> "down" [] dir = Left -> "left" [] dir = Right -> "right"
      [] OTHER -> "none"

\* the character of a drawing at a cell, blank outside the drawing
CharAt(d, c) == IF InCanvas(d, c[1], c[2]) THEN d[c[1]][c[2]] ELSE Blank

\* C29: in Unicode mode every interior waypoint of a routed path is a
\* right-angle turn, the corner fragment holds at its canvas cell the corner
\* glyph whose two strokes point to the previous and to the next waypoint,
\* and no corner fragment holds the fallback '+'.
C29_CornersAreRightAngles ==
    (lay.pc = "rendered" /\ render.unicode.status = "ok") =>
        \A k \in 1..Len(lay.g.edges) :
            LET path == lay.g.edges[k].path
                corners == render.unicode.frags[k].corners
            IN /\ \A c \in CellsOf(corners) : corners[c[1]][c[2]] # "+"
               /\ \A idx \in 2..(Len(path) - 1) :
                    LET prevDir == determineDirection(path[idx - 1], path[idx])
                        nextDir == determineDirection(path[idx], path[idx + 1])
                        dc == gridToDrawingCoord(lay.g, path[idx])
                    IN /\ prevDir \in {Up, Down, Left, Right}
                       /\ nextDir \in {Up, Down, Left, Right}
                       /\ nextDir # prevDir
                       /\ nextDir # getOpposite(prevDir)
                       /\ Strokes(CharAt(corners, <<dc.x, dc.y>>))
                            = { StrokeOf(getOpposite(prevDir)), StrokeOf(nextDir) }

\* a path of four corners, the first of them drawn as the corner that opens
\* to the left and downwards
C29_Witness ==
    /\ lay.pc = "rendered"
    /\ render.unicode.status = "ok"
    /\ \E k \in 1..Len(lay.g.edges) :
         LET path == lay.g.edges[k].path
             dc == gridToDrawingCoord(lay.g, path[2])
         IN /\ Len(path) >= 5
            /\ determineDirection(path[1], path[2]) = Right
            /\ determineDirection(path[2], path[3]) = Down
            /\ render.unicode.frags[k].corners[dc.x][dc.y] = "BoxDL"

\* the drawings draw() merges, in the order node boxes, lines, corners,
\* arrowheads, box starts, labels, each group in the order of the edges
Layers(r) ==
    << r.boxes >>
    \o [ k \in 1..Len(r.frags) |-> r.frags[k].line ]
    \o [ k \in 1..Len(r.frags) |-> r.frags[k].corners ]
    \o [ k \in 1..Len(r.frags) |-> r.frags[k].arrowHead ]
    \o [ k \in 1..Len(r.frags) |-> r.frags[k].boxStart ]
    \o [ k \in 1..Len(r.frags) |-> r.frags[k].label ]

\* the junction glyph that has the strokes of two junction glyphs
Fused(a, b) == CHOOSE j \in junctionChars : Strokes(j) = Strokes(a) \cup Strokes(b)

\* the character a cell shows when the layers from i on are laid over acc:
\* a non-blank character replaces what is below it, two junction glyphs of
\* the Unicode set are fused
RECURSIVE Shown(_, _, _, _, _)
Shown(layers, i, c, acc, ascii) ==
    IF i > Len(layers) THEN acc
    ELSE LET ch == CharAt(layers[i], c)
         IN Shown(layers, i + 1, c,
                  IF ch = Blank THEN acc
                  ELSE IF ~ascii /\ isJunctionChar(ch) /\ isJunctionChar(acc) THEN Fused(acc, ch)
                  ELSE ch,
                  ascii)

\* C30: the canvas draw() returns shows at every cell the character of the
\* last of the groups node boxes, lines, corners, arrowheads, box starts,
\* labels that is non-blank there, fused with the character below it when
\* both are junction glyphs of the Unicode set; a cell an arrowhead covers,
\* and no box start or label, shows the arrowhead, and a cell a label covers
\* shows the character of the label.
C30_FragmentOrder ==
    \A r \in Renders :
        /\ \A c \in CellsOf(r.canvas) :
             r.canvas[c[1]][c[2]] = Shown(Layers(r), 1, c, Blank, r.ascii)
        /\ \A k \in 1..Len(r.frags) : \A c \in CellsOf(r.canvas) :
             /\ (/\ CharAt(r.frags[k].arrowHead, c) # Blank
                 /\ \A j \in 1..Len(r.frags) :
                      /\ CharAt(r.frags[j].boxStart, c) = Blank
                      /\ CharAt(r.frags[j].label, c) = Blank
                      /\ j > k => CharAt(r.frags[j].arrowHead, c) = Blank)
                  => r.canvas[c[1]][c[2]] = CharAt(r.frags[k].arrowHead, c)
             /\ (/\ CharAt(r.frags[k].label, c) # Blank
                 /\ \A j \in (k + 1)..Len(r.frags) : CharAt(r.frags[j].label, c) = Blank)
                  => r.canvas[c[1]][c[2]] = CharAt(r.frags[k].label, c)

\* the Unicode render with the layers it was merged from
UnicodeRender ==
    [ ascii |-> FALSE, canvas |-> render.unicode.canvas, frags |-> render.unicode.frags,
      boxes |-> render.unicode.boxes, status |-> render.unicode.status ]

\* a render in which an arrowhead lies on a cell of a line and is shown, a
\* label character lies on a cell of a line and is shown, and a cell shows
\* a junction glyph that none of the layers holds there: a fusion
C30_Witness ==
    /\ render.unicode.status = "ok"
    /\ \E k \in 1..Len(render.unicode.frags) :
         \E c \in CellsOf(render.unicode.canvas) :
            /\ CharAt(render.unicode.frags[k].arrowHead, c) = "ArrowRight"
            /\ CharAt(render.unicode.frags[k].line, c) = "BoxH"
            /\ render.unicode.canvas[c[1]][c[2]] = "ArrowRight"
    /\ \E k \in 1..Len(render.unicode.frags) :
         \E c \in CellsOf(render.unicode.canvas) :
            /\ CharAt(render.unicode.frags[k].label, c) = "y"
            /\ CharAt(render.unicode.frags[k].line, c) = "BoxH"
            /\ render.unicode.canvas[c[1]][c[2]] = "y"
    /\ \E c \in CellsOf(render.unicode.canvas) :
         /\ render.unicode.canvas[c[1]][c[2]] \in junctionChars
         /\ \A i \in 1..Len(Layers(UnicodeRender)) :
              CharAt(Layers(UnicodeRender)[i], c) # render.unicode.canvas[c[1]][c[2]]

----------------------------------------------------------------------------
(* Properties of the sizes of the border columns and rows *)

\* the cells of the border of the box of node n
BoxBorder(n) ==
    { c \in BoxArea(n) : \/ c[1] \in {n.drawingCoord.x, n.drawingCoord.x + n.drawing.x}
                         \/ c[2] \in {n.drawingCoord.y, n.drawingCoord.y + n.drawing.y} }

\* the canvas cell of a grid cell
CanvasCell(c) == << gridToDrawingCoord(lay.g, c).x, gridToDrawingCoord(lay.g, c).y >>

\* the edges of the graph laid out that have a path
RoutedEdges == { k \in 1..Len(lay.g.edges) : Len(lay.g.edges[k].path) >= 1 }

\* C24: after layout the two border columns of every node have width 1 and
\* its two border rows have height 1, also when a label has widened a
\* column; the first and the last cell of the path of an edge lie on the
\* border of the box of its source and of its target, and the box-start
\* junction of the Unicode render lies on the border of the source's box.
C24_BordersStayThin ==
    lay.pc = "rendered" =>
        /\ \A i \in Placed :
             LET c == lay.g.nodes[i].gridCoord
             IN /\ Get(lay.g.columnWidth, c.x) = 1
                /\ Get(lay.g.columnWidth, c.x + 2) = 1
                /\ Get(lay.g.rowHeight, c.y) = 1
                /\ Get(lay.g.rowHeight, c.y + 2) = 1
        /\ \A k \in RoutedEdges :
             LET e == lay.g.edges[k]
             IN /\ CanvasCell(e.path[1]) \in BoxBorder(lay.g.nodes[e.from])
                /\ CanvasCell(e.path[Len(e.path)]) \in BoxBorder(lay.g.nodes[e.to])
                /\ render.unicode.status = "ok" =>
                     \A c \in CellsOf(render.unicode.frags[k].boxStart) :
                        render.unicode.frags[k].boxStart[c[1]][c[2]] # Blank
                            => c \in BoxBorder(lay.g.nodes[e.from])

----------------------------------------------------------------------------
(* MappingSpec: createMapping on the graph of one diagram source, one call *)
(* of its loops per step                                                   *)

\* the node names of the large sources, one more than the levels that
\* highestPositionPerLevel has slots for at 4 grid cells a level
Letters ==
    << "A", "B", "C", "D", "E", "F", "G", "H", "I", "J", "K", "L", "M",
       "N", "O", "P", "Q", "R", "S", "T", "U", "V", "W", "X", "Y", "Z" >>

\* a chain Letters[1] --> Letters[2] --> ... and nodes without any edge
ChainLines == [ i \in 1..(Len(Letters) - 1) |-> ArrowLine(Letters[i], Letters[i + 1], "") ]

LoneLines == [ i \in 1..Len(Letters) |-> NodeLine(Letters[i]) ]

\* the content lines of the small sources: a child listed before its
\* parent, cycles, self-loops, fan-out and labels
MappingLines ==
    { << ArrowLine("A", "B", "") >>,
      << ArrowLine("A", "A", "") >>,
      << ArrowLine("A", "B", "yes") >>,
      << NodeLine("B"), ArrowLine("A", "B", "") >>,
      << NodeLine("C"), NodeLine("B"), ArrowLine("A", "B", ""), ArrowLine("B", "C", "") >>,
      << ArrowLine("B", "C", ""), ArrowLine("A", "B", "") >>,
      << ArrowLine("A", "B", ""), ArrowLine("B", "A", "") >>,
      << ArrowLine("A", "B", ""), ArrowLine("B", "C", ""), ArrowLine("C", "A", "") >>,
      << ArrowLine("A", "B", ""), ArrowLine("B", "B", ""), ArrowLine("B", "C", "") >>,
      << ArrowLine("A", "B", ""), ArrowLine("A", "C", "") >>,
      << ArrowLine("A", "B", ""), ArrowLine("A", "C", "hello") >>,
      << ArrowLine("A", "B", "yes"), ArrowLine("A", "C", "") >>,
      << ArrowLine("A", "B", "yes"), ArrowLine("B", "C", "hello") >>,
      << ArrowLine("A", "C", ""), ArrowLine("B", "C", ""), ArrowLine("C", "D", "yes") >>,
      << ArrowLine("A", "B", ""), ArrowLine("A", "C", ""), ArrowLine("B", "D", ""),
         ArrowLine("C", "D", ""), ArrowLine("D", "A", "") >> }

MappingSources ==
    { [ header |-> h, lines |-> ls ] :
        h \in {"graph LR", "graph TD"}, ls \in MappingLines \cup {ChainLines, LoneLines} }

MappingInit ==
    /\ FlagsInit
    /\ PathIdle
    /\ MergeIdle
    /\ graph = NewGraph
    /\ ePc = "idle"
    /\ ApiIdle
    /\ canvas = << >>
    /\ lastOp = [ op |-> "none" ]
    /\ lay \in { [ pc |-> "source", src |-> src, outcome |-> "", g |-> NewGraph,
                   i |-> 1, k |-> 1, sub |-> "route",
                   routed |-> {}, labelled |-> {}, searches |-> << >> ]
                 : src \in MappingSources }
    /\ render = [ pc |-> "none", unicode |-> NoRender, ascii |-> NoRender ]

MappingUnchanged ==
    UNCHANGED <<useAscii, pathVars, edgeVars, mergeVars, apiVars, canvas, lastOp, render>>

\* mermaidFileToMap, setGraphDirection and makeGraph
BuildGraph ==
    /\ lay.pc = "source"
    /\ \E parsed \in { mermaidFileToMap(lay.src) } :
         /\ parsed.status = "ok"
         /\ graphDirection' = parsed.graphDirection
         /\ lay' = [ lay EXCEPT !.pc = "built", !.g = makeGraph(parsed.data) ]
    /\ MappingUnchanged

\* createMapping up to the end of the placement of the nodes
PlaceNodes ==
    /\ lay.pc = "built"
    /\ lay' = [ lay EXCEPT !.pc = "placed", !.g = Placement(lay.g, graphDirection) ]
    /\ UNCHANGED graphDirection
    /\ MappingUnchanged

\* one turn of `for (const n of this.nodes) this.setColumnWidth(n)`
SizeNode ==
    /\ lay.pc = "placed"
    /\ lay.i <= Len(lay.g.nodes)
    /\ lay' = [ lay EXCEPT !.g = setColumnWidth(lay.g, lay.i), !.i = @ + 1 ]
    /\ UNCHANGED graphDirection
    /\ MappingUnchanged

\* the searches determinePath makes for an edge: the statuses of the
\* preferred one and of the alternative one, "none" for one not made
SearchesOf(e, ns, g, gd) ==
    IF ns[e.from].gridCoord = NullCoord \/ ns[e.to].gridCoord = NullCoord
    THEN <<"none", "none">>
    ELSE LET c == Candidates(e, ns, gd)
             preferred == getPath(c.from, c.to, g).status
         IN IF preferred # "returned" THEN <<preferred, "none">>
            ELSE <<preferred, getPath(c.altFrom, c.altTo, g).status>>

\* one turn of the loop over the edges, its first two calls: determinePath
\* and increaseGridSizeForPath
RouteEdge ==
    /\ lay.pc = "placed"
    /\ lay.i > Len(lay.g.nodes)
    /\ lay.k <= Len(lay.g.edges)
    /\ lay.sub = "route"
    /\ \E r \in { determinePath(lay.g.edges[lay.k], lay.g.nodes, lay.g.grid, graphDirection) } :
         lay' = IF r.outcome # "returned"
                THEN [ lay EXCEPT !.pc = "failed", !.outcome = r.outcome ]
                ELSE [ lay EXCEPT
                         !.g = increaseGridSizeForPath([ lay.g EXCEPT !.edges[lay.k] = r.edge ],
                                                       r.edge.path, 1),
                         !.sub = "label",
                         !.routed = @ \cup {lay.k},
                         !.searches = Append(@, SearchesOf(lay.g.edges[lay.k], lay.g.nodes,
                                                           lay.g.grid, graphDirection)) ]
    /\ UNCHANGED graphDirection
    /\ MappingUnchanged

\* the same turn, its third call: determineLabelLine
LabelEdge ==
    /\ lay.pc = "placed"
    /\ lay.i > Len(lay.g.nodes)
    /\ lay.k <= Len(lay.g.edges)
    /\ lay.sub = "label"
    /\ \E l \in { determineLabelLine(lay.g, lay.k) } :
         lay' = IF l.outcome # "returned"
                THEN [ lay EXCEPT !.pc = "failed", !.outcome = l.outcome ]
                ELSE [ lay EXCEPT !.g = l.g, !.sub = "route", !.k = @ + 1,
                                  !.labelled = @ \cup {lay.k} ]
    /\ UNCHANGED graphDirection
    /\ MappingUnchanged

\* the last loop of createMapping and setDrawingSizeToGridConstraints
ResolveDrawing ==
    /\ lay.pc = "placed"
    /\ lay.i > Len(lay.g.nodes)
    /\ lay.k > Len(lay.g.edges)
    /\ lay' = [ lay EXCEPT !.pc = "mapped", !.outcome = "returned",
                           !.g = setDrawingSizeToGridConstraints(ResolveNodes(lay.g, 1)) ]
    /\ UNCHANGED graphDirection
    /\ MappingUnchanged

MappingNext ==
    BuildGraph \/ PlaceNodes \/ SizeNode \/ RouteEdge \/ LabelEdge \/ ResolveDrawing

MappingSpec == MappingInit /\ [][MappingNext]_allVars

\* the steps together leave the graph createMapping leaves
MappingAgrees ==
    lay.pc = "mapped" =>
        \E parsed \in { mermaidFileToMap(lay.src) } :
          \E whole \in { createMapping(makeGraph(parsed.data), parsed.graphDirection) } :
            whole.outcome = "returned" /\ whole.g = lay.g

\* no layout of the sources ends in a search that leaves its window
MappingEnds == lay.pc # "failed"

----------------------------------------------------------------------------
(* Properties of createMapping, step by step *)

\* C22: once the placement loops of createMapping have run, every node of
\* the graph has a grid position, whatever the order of the nodes and edges
\* of the source (cycles, self-loops, a child listed before its parent): a
\* node that is not a root is a child of a node earlier in the node list,
\* so that it is placed before the pass over the nodes reaches it.
C22_EveryNodePlaced ==
    lay.pc \in {"placed", "mapped", "failed"} =>
        \A n \in 1..Len(lay.g.nodes) :
            /\ Has(lay.g.nodes[n].gridCoord)
            /\ n \notin Range(RootNodes(lay.g, 1, {}))
                 => \E m \in 1..(n - 1) : n \in Range(getChildren(lay.g, m))

\* a mapped graph with a cycle back to its only root, and one whose second
\* node is the parent of its first
C22_Witness ==
    /\ lay.pc = "mapped"
    /\ \A n \in 1..Len(lay.g.nodes) : Has(lay.g.nodes[n].gridCoord)
    /\ \/ /\ Len(lay.g.nodes) = 4
          /\ RootNodes(lay.g, 1, {}) = <<1>>
          /\ \E k \in 1..Len(lay.g.edges) : lay.g.edges[k].from = 4 /\ lay.g.edges[k].to = 1
       \/ /\ lay.src.lines = << NodeLine("B"), ArrowLine("A", "B", "") >>
          /\ RootNodes(lay.g, 1, {}) = <<1, 2>>

\* the edges whose label determineLabelLine has placed
LabelsPlaced == { k \in lay.labelled : Len(lay.g.edges[k].text) > 0 }

\* C26: the phases of createMapping run strictly one after another: the
\* routing of an edge starts only after every node has been sized, and the
\* label of an edge is placed only after every edge has been routed.
C26_PhasesInOrder ==
    lay.pc \in {"placed", "mapped", "failed"} =>
        /\ lay.routed # {} => lay.i > Len(lay.g.nodes)
        /\ LabelsPlaced # {} => lay.routed = 1..Len(lay.g.edges)

\* every index of the size map m is one of n, with a size that is no smaller
SizesGrow(m, n) == \A i \in DOMAIN m : i \in DOMAIN n /\ n[i] >= m[i]

\* C27: during createMapping the maps columnWidth and rowHeight only grow:
\* no step of it (the sizing of a node with its padding write, the default
\* sizing of the path cells, the widening for a label) leaves an index with
\* a smaller size than it had. Each step writes an index at most once, but
\* for the max-merged writes of setColumnWidth.
C27_SizesOnlyGrow ==
    [][ /\ SizesGrow(lay.g.columnWidth, lay'.g.columnWidth)
        /\ SizesGrow(lay.g.rowHeight, lay'.g.rowHeight) ]_allVars

\* a mapped graph with a routed edge in which a label has widened a padding
\* column beyond its padding
C27_Witness ==
    /\ lay.pc = "mapped"
    /\ \E i \in DOMAIN lay.g.columnWidth :
         i >= 0 /\ i % 4 = 3 /\ lay.g.columnWidth[i] > PADDING_BETWEEN_X
    /\ \E k \in 1..Len(lay.g.edges) : Len(lay.g.edges[k].path) >= 2

\* the available width of a segment of a path: the sum of the widths of all
\* the columns it spans
SpanWidth(g, line) ==
    SumRange(g.columnWidth, min(line[1].x, line[2].x), max(line[1].x, line[2].x))

\* the first segment of the path that is wide enough for the label, the
\* first of the widest ones if none is
AnchorBySpan(g, path, lenLabel) ==
    LET seg(i) == <<path[i], path[i + 1]>>
        I == 1..(Len(path) - 1)
        fits == { i \in I : SpanWidth(g, seg(i)) >= lenLabel }
        widest == { i \in I : \A j \in I : SpanWidth(g, seg(i)) >= SpanWidth(g, seg(j)) }
        first(S) == CHOOSE i \in S : \A j \in S : i <= j
    IN seg(IF fits # {} THEN first(fits) ELSE first(widest))

\* C25: when determineLabelLine returns for an edge with a label, the label
\* line recorded is the first segment of the routed path whose available
\* width (the sum of the widths of all columns it spans, as they are when
\* the call starts) is at least the length of the label, the widest segment
\* if none is; and the column at the middle grid x of that segment is then
\* at least the length of the label + 2 wide.
C25_LabelAnchor ==
    [][ ( /\ lay.pc = "placed"
          /\ lay.sub = "label"
          /\ lay'.sub = "route"
          /\ Len(lay.g.edges[lay.k].text) > 0
          /\ Len(lay.g.edges[lay.k].path) >= 2 )
        => LET e == lay.g.edges[lay.k]
               anchor == AnchorBySpan(lay.g, e.path, Len(e.text))
               minX == min(anchor[1].x, anchor[2].x)
               maxX == max(anchor[1].x, anchor[2].x)
           IN /\ lay'.g.edges[lay.k].labelLine = anchor
              /\ Get(lay'.g.columnWidth, minX + ((maxX - minX) \div 2)) >= Len(e.text) + 2
      ]_allVars

\* a grid coordinate the placement is meant to give: a multiple of 4 from 0 on
OnTheLattice(v) == IsNumber(v) /\ v >= 0 /\ v % 4 = 0

\* C28: the placement gives every node grid coordinates that are
\* non-negative integers and multiples of 4, and createMapping gives every
\* node a box of width columnWidth[x] + columnWidth[x + 1], for graphs of any
\* size: also with more than 25 levels, or more than 25 nodes in a level.
C28_GridCoordsAndBoxes ==
    lay.pc \in {"placed", "mapped"} =>
        \A n \in 1..Len(lay.g.nodes) :
            LET c == lay.g.nodes[n].gridCoord
            IN /\ OnTheLattice(c.x)
               /\ OnTheLattice(c.y)
               /\ lay.pc = "mapped" =>
                    lay.g.nodes[n].drawing.x
                        = Get(lay.g.columnWidth, c.x) + Get(lay.g.columnWidth, c.x + 1)

\* C21: for every graph the placement has laid out, both searches of every
\* edge (self-loops and edges back toward level 0 too) find a path: none of
\* them ends in the failure "No path found" during createMapping.
C21_SearchesFindAPath ==
    \A k \in 1..Len(lay.searches) : lay.searches[k] = <<"returned", "returned">>

====
